---- MODULE Spec2Model ----
(***************************************************************************)
(* Model of the document-recognition pipeline (recognize-v2 route).        *)
(*                                                                         *)
(* Spec      : one request through Pipeline.execute, stage by stage, with  *)
(*             the tile calls of ExtractionStage as separate steps.  The   *)
(*             payload of a model answer is abstracted to its presence.    *)
(* SpecData  : the rows of one request through extraction, aggregation,    *)
(*             validation and cleanup, each as one step.                   *)
(* SpecLegacy: processParallelMode of the legacy openai.service.js.        *)
(* SpecVerified: the repair steps of OCRVerifiedExtractionStage.process.   *)
(*                                                                         *)
(* A JavaScript value that may be undefined is a sequence of length <= 1:  *)
(* << >> is undefined, <<v>> is the value v.                               *)
(***************************************************************************)
EXTENDS Integers, Sequences, FiniteSets, TLC

VARIABLES
    options,    \* ProcessingContext.options (parseRequest's options record)
    request,    \* the other request fields and what the document holds
    env,        \* configuration read from the environment
    stages,     \* Pipeline.stages
    pc,         \* position of Pipeline.execute / POST
    idx,        \* index of the stage the for-loop of execute is at
    ctx,        \* the mutable fields of ProcessingContext
    ex,         \* locals of the running ExtractionStage.process
    hist,       \* history: process invocations and model calls
    response,   \* what POST returned
    dctx,       \* SpecData: the data fields of ProcessingContext
    dpc,        \* SpecData: position in the run
    lg,         \* SpecLegacy: locals of processParallelMode (openai.service.js)
    ov,         \* SpecVerified: locals of OCRVerifiedExtractionStage.process
    fn          \* a function of the library applied on its own: arguments and values

vars == <<options, request, env, stages, pc, idx, ctx, ex, hist, response, dctx, dpc, lg, ov, fn>>

pvars == <<options, request, env, stages, pc, idx, ctx, ex, hist, response>>

dvars == <<dctx, dpc, lg, ov, fn>>

----------------------------------------------------------------------------
(* Bounds *)

MaxPages == 2

MaxSlices == 2

MaxConcurrencyOption == 2

MaxTiles == 3

----------------------------------------------------------------------------
(* JavaScript helpers *)

undefined == << >>

TruthyNum(v) == v # << >> /\ v[1] # 0

TruthyBool(v) == v # << >> /\ v[1]

\* { ...a, ...b }: every own key of b wins, also one whose value is undefined
Spread(a, b) == [k \in (DOMAIN a) \cup (DOMAIN b) |-> IF k \in DOMAIN b THEN b[k] ELSE a[k]]

Range(s) == {s[i] : i \in 1..Len(s)}

Min(a, b) == IF a < b THEN a ELSE b

\* items.slice(i, i + batchSize) for i = 0, batchSize, 2 * batchSize, ...
RECURSIVE slicesFrom(_, _, _)
slicesFrom(items, batchSize, i) ==
    IF i >= Len(items) THEN << >>
    ELSE <<SubSeq(items, i + 1, Min(i + batchSize, Len(items)))>> \o slicesFrom(items, batchSize, i + batchSize)

----------------------------------------------------------------------------
(* src/src/config/index.js *)

tilingDefaults ==
    [enableTiling |-> <<TRUE>>, headerHeight |-> <<500>>, sliceHeight |-> <<500>>,
     overlap |-> <<100>>, parallelMode |-> <<TRUE>>, maxConcurrency |-> <<5>>,
     retryAttempts |-> <<2>>]

tilingByDocType(docType) ==
    CASE docType = "drawdown" -> [enableTiling |-> <<TRUE>>, parallelMode |-> <<TRUE>>]
      [] docType = "invoice" -> [enableTiling |-> <<FALSE>>]
      [] docType = "bankStatement" -> [enableTiling |-> <<TRUE>>]
      [] docType = "loanContract" -> [enableTiling |-> <<FALSE>>]
      [] OTHER -> [x \in {} |-> << >>]

getTilingConfig(docType, userOptions) ==
    Spread(Spread(tilingDefaults, tilingByDocType(docType)), userOptions)

getValidatorsForDocType(docType) ==
    IF docType = "drawdown" THEN <<"iban">> ELSE << >>

reVerificationEnabled == TRUE

----------------------------------------------------------------------------
(* src/src/app/api/recognize-v2/route.js and the ProcessingContext *)

PipelineModes == {"default", "ocr-enhanced", "ocr-only", "ocr-verified"}

Optional(S) == {undefined} \cup {<<v>> : v \in S}

\* number of tiles a page sequence yields when every page is considered for tiling
TileCount(pages) ==
    LET RECURSIVE cnt(_)
        cnt(i) == IF i > Len(pages) THEN 0
                  ELSE (IF pages[i] = 0 THEN 1 ELSE pages[i]) + cnt(i + 1)
    IN cnt(1)

\* what the uploaded file holds: per rendered page 0 when shouldTile is false
\* for it, else the number of slices tileImage cuts it into
Documents(mimeType, o) ==
    LET kinds == IF o.enableTiling # <<TRUE>> THEN {0}
                 ELSE IF o.sliceHeight = undefined THEN {0, 1}
                 ELSE 0..MaxSlices
        n == IF mimeType = "application/pdf" THEN MaxPages ELSE 1
    IN {p \in UNION {[1..k -> kinds] : k \in 1..n} : TileCount(p) <= MaxTiles /\ Len(p) <= MaxTiles}

\* the options record parseRequest builds: every key is present, an omitted
\* field has the value undefined
ParsedOptions ==
    {o \in [modelProvider : {"openai", "gemini"},
            enableTiling : Optional(BOOLEAN),
            sliceHeight : {undefined, tilingDefaults.sliceHeight},
            overlap : {undefined, tilingDefaults.overlap},
            headerHeight : {undefined, tilingDefaults.headerHeight},
            parallelMode : Optional(BOOLEAN),
            maxConcurrency : Optional(1..MaxConcurrencyOption),
            useAzureOCR : Optional(BOOLEAN),
            ocrConcurrency : Optional({1}),
            pipelineMode : PipelineModes] :
        \* options no stage of the chosen branch reads are left out of the request
        /\ (o.pipelineMode # "default" \/ o.modelProvider # "openai")
              => (o.enableTiling = undefined /\ o.parallelMode = undefined)
        /\ o.parallelMode # <<TRUE>> => o.maxConcurrency = undefined
        /\ o.enableTiling # <<TRUE>> => o.sliceHeight = undefined
        /\ (o.sliceHeight = undefined) = (o.overlap = undefined)
        /\ (o.sliceHeight = undefined) = (o.headerHeight = undefined)
        /\ o.pipelineMode # "default" => o.useAzureOCR = undefined
        /\ o.useAzureOCR # <<FALSE>>
        \* the OCR pre-pass of the default pipeline is asked for with the tiling
        \* options left out: ExtractionStage does not read its outcome
        /\ o.useAzureOCR = <<TRUE>> => (o.enableTiling = undefined /\ o.maxConcurrency = undefined)
        /\ (o.pipelineMode = "default" /\ o.useAzureOCR = undefined) => o.ocrConcurrency = undefined}

Requests(o) ==
    [mimeType : {"application/pdf", "image/jpeg", "text/plain"},
     docType : {"drawdown", "invoice"},
     pages : UNION {Documents(m, o) : m \in {"application/pdf", "image/jpeg"}}]

isPDF(req) == req.mimeType = "application/pdf"

isImage(mimeType) == mimeType \in {"image/jpeg", "image/jpg", "image/png", "image/gif", "image/webp"}

getProvider(o) == o.modelProvider

isOpenAIProvider(o) == getProvider(o) \in {"openai", "azure-openai"}

\* POST: the ocr-* modes switch the OCR pre-pass on
withAutoOCR(o) ==
    IF o.pipelineMode \in {"ocr-enhanced", "ocr-only", "ocr-verified"}
    THEN [o EXCEPT !.useAzureOCR = <<TRUE>>]
    ELSE o

\* a pipeline that aggregates before it extracts
buildPipelineAggregatingFirst(mode) ==
    <<"PreprocessingStage", "AggregationStage">> \o
    (CASE mode = "ocr-enhanced" -> <<"AzureOCRStage", "OCREnhancedExtractionStage">>
       [] mode = "ocr-only" -> <<"AzureOCRStage", "OCROnlyExtractionStage">>
       [] mode = "ocr-verified" -> <<"AzureOCRStage", "OCRVerifiedExtractionStage">>
       [] OTHER -> <<"AzureOCRStage", "TilingStage", "ExtractionStage">>) \o
    <<"ValidationStage", "CleanupStage">>

buildPipeline(mode) ==
    <<"PreprocessingStage">> \o
    (CASE mode = "ocr-enhanced" -> <<"AzureOCRStage", "OCREnhancedExtractionStage">>
       [] mode = "ocr-only" -> <<"AzureOCRStage", "OCROnlyExtractionStage">>
       [] mode = "ocr-verified" -> <<"AzureOCRStage", "OCRVerifiedExtractionStage">>
       [] OTHER -> <<"AzureOCRStage", "TilingStage", "ExtractionStage">>) \o
    <<"AggregationStage", "ValidationStage", "CleanupStage">>

null == "null"

NewContext ==
    [images |-> 0, tiles |-> << >>, extractions |-> << >>, result |-> null,
     ocrText |-> FALSE, stagesCompleted |-> << >>,
     error |-> null, errors |-> << >>, warnings |-> << >>]

exIdle ==
    [mode |-> "idle", batches |-> << >>, batchIndex |-> 0, results |-> << >>, tile |-> << >>,
     pauses |-> << >>]

\* processParallelMode is not running
legacyIdle ==
    [st |-> "idle", n |-> 0, maxConcurrency |-> 0, retryAttempts |-> 0, i |-> 0, tile |-> << >>,
     results |-> << >>, pauses |-> << >>, out |-> << >>]

\* the locals of OCRVerifiedExtractionStage.process before the stage runs;
\* requested and answer are history: the rows sent to the verification pass
\* and the rows the model returned for them
ovIdle ==
    [st |-> "idle", items |-> << >>, ocrText |-> << >>, validItems |-> << >>,
     invalidItems |-> << >>, corrected |-> << >>, remainingInvalidItems |-> << >>,
     finalItems |-> << >>, requested |-> << >>, answer |-> << >>, correctedItems |-> << >>]

\* no library function is applied on its own
fnIdle == [st |-> "idle"]

NewHist ==
    [invoked |-> << >>, calls |-> << >>, succeeded |-> {}, firstError |-> null, thrown |-> << >>,
     joined |-> << >>]

NoResponse == [status |-> 0, error |-> null, details |-> << >>, body |-> null]

NewData ==
    [tiles |-> << >>, cursor |-> 0, extractions |-> << >>, result |-> undefined, error |-> null,
     emitted |-> 0, reVerified |-> {},
     response |-> [status |-> 0, body |-> undefined, meta |-> FALSE]]

Init ==
    /\ \E o \in ParsedOptions :
         /\ options = withAutoOCR(o)
         /\ request \in {r \in Requests(o) :
                           /\ r.pages \in Documents(r.mimeType, o)
                           /\ r.mimeType = "text/plain" => r.pages = <<0>>}
         /\ stages = buildPipeline(o.pipelineMode)
    /\ env \in {e \in [providerConfigured : BOOLEAN, visionConfigured : BOOLEAN] :
                  ~TruthyBool(options.useAzureOCR) => e.visionConfigured}
    /\ pc = "loop"
    /\ idx = 1
    /\ ctx = NewContext
    /\ ex = exIdle
    /\ hist = NewHist
    /\ response = NoResponse
    /\ dctx = NewData
    /\ dpc = "off"
    /\ lg = legacyIdle
    /\ ov = ovIdle
    /\ fn = fnIdle

----------------------------------------------------------------------------
(* ProcessingContext methods (part_001) *)

completeStage(c, stageName) == [c EXCEPT !.stagesCompleted = Append(@, stageName)]

\* a failure that is swallowed without a warning
addTileWarningDropped(c, stage, message, tile) == c

\* tile: position of the tile the message names, 0 when it names none
addTileWarning(c, stage, message, tile) ==
    [c EXCEPT !.warnings = Append(@, [stage |-> stage, message |-> message, tile |-> tile])]

addWarning(c, stage, message) == addTileWarning(c, stage, message, 0)

pushError(c, stage, message) == [c EXCEPT !.errors = Append(@, [stage |-> stage, message |-> message])]

----------------------------------------------------------------------------
(* Pipeline.execute (src/src/pipeline/Pipeline.js) *)

\* stage.shouldRun(context), without its side effect on warnings
shouldRun(name) ==
    CASE name = "AzureOCRStage" ->
             /\ TruthyBool(options.useAzureOCR)
             /\ env.visionConfigured
             /\ ctx.images > 0
      [] name = "TilingStage" -> isOpenAIProvider(options)
      [] name \in {"OCREnhancedExtractionStage", "OCROnlyExtractionStage", "OCRVerifiedExtractionStage"} ->
             ctx.ocrText /\ isOpenAIProvider(options)
      [] name = "ValidationStage" ->
             ctx.result # null /\ Len(getValidatorsForDocType(request.docType)) > 0
      [] OTHER -> TRUE

AtStage == pc = "loop" /\ idx <= Len(stages)

\* the stage's process is about to be invoked: shouldRun held and no error is set
RunnableIgnoringError(name) == AtStage /\ stages[idx] = name /\ shouldRun(name)

Runnable(name) == AtStage /\ stages[idx] = name /\ shouldRun(name) /\ ctx.error = null

invoke(name) == [hist EXCEPT !.invoked = Append(@, name)]

noteError(h, c) == IF h.firstError = null /\ c.error # null THEN [h EXCEPT !.firstError = c.error] ELSE h

\* the for-loop's continue
SkipStage ==
    /\ AtStage
    /\ ~shouldRun(stages[idx])
    /\ ctx' = IF stages[idx] = "AzureOCRStage" /\ TruthyBool(options.useAzureOCR) /\ ~env.visionConfigured
              THEN addWarning(ctx, "AzureOCRStage", "Azure Vision not configured - skipping OCR stage")
              ELSE ctx
    /\ idx' = idx + 1
    /\ UNCHANGED <<options, request, env, stages, pc, ex, hist, response, dvars>>

\* the for-loop's break on context.error
StopOnError ==
    /\ AtStage
    /\ shouldRun(stages[idx])
    /\ ctx.error # null
    /\ pc' = "returned"
    /\ UNCHANGED <<options, request, env, stages, idx, ctx, ex, hist, response, dvars>>

\* the for-loop ran out of stages
LoopEnd ==
    /\ pc = "loop"
    /\ idx > Len(stages)
    /\ pc' = "returned"
    /\ UNCHANGED <<options, request, env, stages, idx, ctx, ex, hist, response, dvars>>

\* stage.process returned c
Returned(name, c) ==
    /\ ctx' = c
    /\ hist' = noteError(invoke(name), c)
    /\ idx' = idx + 1
    /\ pc' = "loop"

\* stage.process threw: the catch block of execute
catchThrowWithoutRecord(c, name, message) == [c EXCEPT !.error = message]

catchThrow(c, name, message) == pushError([c EXCEPT !.error = message], name, message)

noteThrow(h, name) == [h EXCEPT !.thrown = Append(@, name)]

Threw(name, c, message) ==
    /\ ctx' = catchThrow(c, name, message)
    /\ hist' = noteThrow(noteError(invoke(name), catchThrow(c, name, message)), name)
    /\ pc' = "returned"
    /\ UNCHANGED idx

----------------------------------------------------------------------------
(* PreprocessingStage, AzureOCRStage, TilingStage *)

PreprocessingStage ==
    /\ Runnable("PreprocessingStage")
    /\ \/ /\ isPDF(request)
          /\ \/ Returned("PreprocessingStage",
                         completeStage([ctx EXCEPT !.images = Len(request.pages)], "PreprocessingStage"))
             \/ Returned("PreprocessingStage",
                         pushError([ctx EXCEPT !.error = "PDF conversion failed"],
                                   "PreprocessingStage", "convert failed"))
       \/ /\ ~isPDF(request) /\ isImage(request.mimeType)
          /\ Returned("PreprocessingStage", completeStage([ctx EXCEPT !.images = 1], "PreprocessingStage"))
       \/ /\ ~isPDF(request) /\ ~isImage(request.mimeType)
          /\ Returned("PreprocessingStage", [ctx EXCEPT !.error = "Unsupported file type"])
    /\ UNCHANGED <<options, request, env, stages, ex, response, dvars>>

\* extractTextFromImages: options.maxConcurrency || 3, handed over by the
\* stage as context.options.ocrConcurrency || 3
ocrConcurrencyOf(o) == IF TruthyNum(o.ocrConcurrency) THEN o.ocrConcurrency[1] ELSE 3

\* the calls of a fan-out that were dispatched and have not settled, a
\* retry that waits for its timer included
inFlight(tile) == {t \in DOMAIN tile : tile[t].st \in {"calling", "backoff"}}

dispatched(tile) == {t \in DOMAIN tile : tile[t].st # "idle"}

\* a fan-out stage returns to execute: what it dispatched and what it left behind
noteJoin(h, name, tile) ==
    [h EXCEPT !.joined = Append(@, [stage |-> name,
                                    dispatched |-> Cardinality(dispatched(tile)),
                                    pending |-> Cardinality(inFlight(tile))])]

\* a join that does not wait for the attempts in flight
settledOrInFlight(tileState) == tileState.st # "idle"

settled(tileState) == tileState.st \in {"ok", "null", "empty"}

\* a join that resolves with the first call of the batch that settles
promiseAny(batch, tile) == \E t \in {batch[i] : i \in 1..Len(batch)} : settled(tile[t])

\* await Promise.all(batchPromises): every call of the batch has settled
promiseAll(batch, tile) == \A t \in {batch[i] : i \in 1..Len(batch)} : settled(tile[t])

\* AzureOCRStage.process up to the first await of extractTextFromImages:
\* the first batch of per-image OCR calls is dispatched
AzureOCRStart ==
    /\ Runnable("AzureOCRStage")
    /\ LET n == ctx.images
           batches == slicesFrom([i \in 1..n |-> i], ocrConcurrencyOf(options), 0)
           idle == [i \in 1..n |-> [st |-> "idle", attempt |-> 0, waited |-> 0]]
       IN ex' = [mode |-> "ocr", batches |-> batches, batchIndex |-> 0, results |-> << >>,
                 pauses |-> << >>,
                 tile |-> [i \in 1..n |-> IF i \in {batches[1][j] : j \in 1..Len(batches[1])}
                                          THEN [st |-> "calling", attempt |-> 0, waited |-> 0] ELSE idle[i]]]
    /\ hist' = invoke("AzureOCRStage")
    /\ pc' = "ocr"
    /\ UNCHANGED <<options, request, env, stages, idx, ctx, response, dvars>>

\* extractTextFromImage resolves for one image, with text or with ''
OCRCallSucceeds ==
    /\ pc = "ocr"
    /\ \E i \in DOMAIN ex.tile, text \in BOOLEAN :
         /\ ex.tile[i].st = "calling"
         /\ ex' = [ex EXCEPT !.tile[i].st = IF text THEN "ok" ELSE "empty"]
    /\ UNCHANGED <<options, request, env, stages, pc, idx, ctx, hist, response, dvars>>

\* extractTextFromImage throws: the catch of the image's promise resolves
\* it with { text: '', error }
OCRCallFails ==
    /\ pc = "ocr"
    /\ \E i \in DOMAIN ex.tile :
         /\ ex.tile[i].st = "calling"
         /\ ex' = [ex EXCEPT !.tile[i].st = "null"]
    /\ UNCHANGED <<options, request, env, stages, pc, idx, ctx, hist, response, dvars>>

\* combineOCRResults yields a non-empty text
combinedText(results) == \E i \in 1..Len(results) : results[i]

\* Promise.all of the running OCR batch resolves: the next batch is
\* dispatched, or the stage stores the combined text and returns
OCRBatchSettled ==
    /\ pc = "ocr"
    /\ LET batch == ex.batches[ex.batchIndex + 1]
           results == ex.results \o [i \in 1..Len(batch) |-> ex.tile[batch[i]].st = "ok"]
       IN /\ promiseAll(batch, ex.tile)
          /\ IF ex.batchIndex + 1 < Len(ex.batches)
             THEN /\ ex' = [ex EXCEPT !.results = results, !.batchIndex = @ + 1,
                                      !.tile = [i \in DOMAIN @ |->
                                                  IF i \in {ex.batches[ex.batchIndex + 2][j] :
                                                              j \in 1..Len(ex.batches[ex.batchIndex + 2])}
                                                  THEN [st |-> "calling", attempt |-> 0, waited |-> 0] ELSE @[i]]]
                  /\ UNCHANGED <<ctx, pc, idx, hist>>
             ELSE /\ ctx' = completeStage([ctx EXCEPT !.ocrText = combinedText(results)], "AzureOCRStage")
                  /\ hist' = noteJoin(hist, "AzureOCRStage", ex.tile)
                  /\ ex' = exIdle
                  /\ idx' = idx + 1
                  /\ pc' = "loop"
    /\ UNCHANGED <<options, request, env, stages, response, dvars>>

\* the tiles TilingStage.process builds from the pages
plainTiles(n) ==
    [i \in 1..n |-> [pageIndex |-> i - 1, sliceIndex |-> 0, globalIndex |-> undefined, isTiled |-> FALSE]]

RECURSIVE buildTiles(_, _, _)
buildTiles(pages, pageIndex, globalIndex) ==
    IF pageIndex >= Len(pages) THEN << >>
    ELSE LET k == pages[pageIndex + 1]
             n == IF k = 0 THEN 1 ELSE k
             mine == [s \in 1..n |-> [pageIndex |-> pageIndex, sliceIndex |-> s - 1,
                                      globalIndex |-> <<globalIndex + s - 1>>, isTiled |-> k # 0]]
         IN mine \o buildTiles(pages, pageIndex + 1, globalIndex + n)

\* tileImage is given the three heights of the tiling config; a height that is
\* undefined there makes sharp's extract reject the NaN it leads to
geometryDefined(tilingConfig) ==
    /\ tilingConfig.sliceHeight # undefined
    /\ tilingConfig.headerHeight # undefined
    /\ tilingConfig.overlap # undefined

TilingStage ==
    /\ Runnable("TilingStage")
    /\ LET tilingConfig == getTilingConfig(request.docType, options)
       IN \/ /\ ~TruthyBool(tilingConfig.enableTiling)
             /\ Returned("TilingStage",
                         completeStage([ctx EXCEPT !.tiles = plainTiles(ctx.images)], "TilingStage"))
          \/ /\ TruthyBool(tilingConfig.enableTiling)
             /\ \/ /\ geometryDefined(tilingConfig) \/ \A i \in 1..Len(request.pages) : request.pages[i] = 0
                   /\ Returned("TilingStage",
                               completeStage([ctx EXCEPT !.tiles = buildTiles(request.pages, 0, 0)], "TilingStage"))
                \/ /\ ~geometryDefined(tilingConfig)
                   /\ \E i \in 1..Len(request.pages) : request.pages[i] # 0
                   /\ Threw("TilingStage", ctx, "Expected positive integer for height but received NaN")
                \/ /\ ~isPDF(request)
                   /\ Threw("TilingStage", ctx, "Input buffer contains unsupported image format")
    /\ UNCHANGED <<options, request, env, stages, ex, response, dvars>>

----------------------------------------------------------------------------
(* ExtractionStage (src/src/pipeline/stages/ExtractionStage.js) *)

\* createBatches for a batchSize >= 1
createBatches(items, batchSize) == slicesFrom(items, batchSize, 0)

maxConcurrencyOf(tilingConfig) ==
    IF TruthyNum(tilingConfig.maxConcurrency) THEN tilingConfig.maxConcurrency[1] ELSE 5

retryAttemptsOf(tilingConfig) ==
    IF TruthyNum(tilingConfig.retryAttempts) THEN tilingConfig.retryAttempts[1] ELSE 2

TilePositions == 1..Len(ctx.tiles)

\* what extractTile returns for the tile at position t of context.tiles
extractTileResult(t) == [tileIndex |-> ctx.tiles[t].globalIndex, src |-> t]

\* provider.extract is issued for tile t
issueCall(h, t) == [h EXCEPT !.calls[t] = @ + 1]

issueCalls(h, ts) ==
    [h EXCEPT !.calls = [t \in DOMAIN h.calls |-> IF t \in Range(ts) THEN h.calls[t] + 1 ELSE h.calls[t]]]

startTiles(tile, ts) ==
    [t \in DOMAIN tile |-> IF t \in Range(ts) THEN [st |-> "calling", attempt |-> 0, waited |-> 0] ELSE tile[t]]

\* ExtractionStage.process up to its first await
ExtractionStart ==
    /\ Runnable("ExtractionStage")
    /\ LET n == Len(ctx.tiles)
           tilingConfig == getTilingConfig(request.docType, options)
           h0 == [invoke("ExtractionStage") EXCEPT !.calls = [t \in 1..n |-> 0]]
           idle == [t \in 1..n |-> [st |-> "idle", attempt |-> 0, waited |-> 0]]
       IN \/ /\ ~env.providerConfigured
             /\ ctx' = [ctx EXCEPT !.error = "Provider is not configured"]
             /\ hist' = noteError(h0, ctx')
             /\ idx' = idx + 1
             /\ UNCHANGED <<pc, ex>>
          \/ /\ env.providerConfigured /\ ~isOpenAIProvider(options)
             /\ ex' = [exIdle EXCEPT !.mode = "gemini"]
             /\ hist' = h0
             /\ pc' = "extracting"
             /\ UNCHANGED <<ctx, idx>>
          \/ /\ env.providerConfigured /\ isOpenAIProvider(options) /\ n = 0
             /\ ctx' = completeStage([ctx EXCEPT !.error = "No tiles to process"], "ExtractionStage")
             /\ hist' = noteError(h0, ctx')
             /\ idx' = idx + 1
             /\ UNCHANGED <<pc, ex>>
          \/ /\ env.providerConfigured /\ isOpenAIProvider(options) /\ n = 1
             /\ ex' = [exIdle EXCEPT !.mode = "single", !.tile = startTiles(idle, <<1>>)]
             /\ hist' = issueCall(h0, 1)
             /\ pc' = "extracting"
             /\ UNCHANGED <<ctx, idx>>
          \/ /\ env.providerConfigured /\ isOpenAIProvider(options) /\ n > 1
             /\ TruthyBool(tilingConfig.parallelMode)
             /\ LET batches == createBatches([t \in 1..n |-> t], maxConcurrencyOf(tilingConfig))
                IN /\ ex' = [mode |-> "parallel", batches |-> batches, batchIndex |-> 0,
                             results |-> << >>, tile |-> startTiles(idle, batches[1]),
                             pauses |-> << >>]
                   /\ hist' = issueCalls(h0, batches[1])
             /\ pc' = "extracting"
             /\ UNCHANGED <<ctx, idx>>
          \/ /\ env.providerConfigured /\ isOpenAIProvider(options) /\ n > 1
             /\ ~TruthyBool(tilingConfig.parallelMode)
             /\ ex' = [exIdle EXCEPT !.mode = "sequential", !.tile = startTiles(idle, <<1>>)]
             /\ hist' = issueCall(h0, 1)
             /\ pc' = "extracting"
             /\ UNCHANGED <<ctx, idx>>
    /\ UNCHANGED <<options, request, env, stages, response, dvars>>

\* ExtractionStage.process finishes: completeStage and return to execute
\* ok: the tile position whose call has just succeeded, 0 for none
noteSuccess(h, ok) == IF ok = 0 THEN h ELSE [h EXCEPT !.succeeded = @ \cup {ok}]

finishExtraction(c, ok) ==
    /\ ctx' = completeStage(c, "ExtractionStage")
    /\ hist' = noteError(noteSuccess(hist, ok), c)
    /\ ex' = exIdle
    /\ idx' = idx + 1
    /\ pc' = "loop"

\* a catch that only warns
singleCallFailedAsWarning(c, stage, message) == addWarning(c, stage, message)

\* the catch around the one model call of a single-call stage
singleCallFailed(c, stage, message) == pushError([c EXCEPT !.error = message], stage, "transport")

\* extractWithGemini: the one provider.extract call settles
GeminiCallSucceeds ==
    /\ pc = "extracting" /\ ex.mode = "gemini"
    /\ finishExtraction([ctx EXCEPT !.extractions = <<[tileIndex |-> undefined, src |-> 0]>>], 0)
    /\ UNCHANGED <<options, request, env, stages, response, dvars>>

GeminiCallFails ==
    /\ pc = "extracting" /\ ex.mode = "gemini"
    /\ finishExtraction(singleCallFailed(ctx, "ExtractionStage", "Gemini extraction failed"), 0)
    /\ UNCHANGED <<options, request, env, stages, response, dvars>>

\* extractWithOpenAI with one tile: the direct extractTile call settles
SingleCallSucceeds ==
    /\ pc = "extracting" /\ ex.mode = "single"
    /\ finishExtraction([ctx EXCEPT !.extractions = <<extractTileResult(1)>>], 1)
    /\ UNCHANGED <<options, request, env, stages, response, dvars>>

SingleCallFails ==
    /\ pc = "extracting" /\ ex.mode = "single"
    /\ ctx' = catchThrow(ctx, "ExtractionStage", "transport")
    /\ hist' = noteThrow(noteError(hist, ctx'), "ExtractionStage")
    /\ ex' = exIdle
    /\ pc' = "returned"
    /\ UNCHANGED <<options, request, env, stages, idx, response, dvars>>

\* extractSequential: the call of the tile the for-loop is at settles
seqNext(t, st, results, c) ==
    LET ok == IF st = "ok" THEN t ELSE 0 IN
    IF t < Len(ctx.tiles)
    THEN /\ ex' = [ex EXCEPT !.results = results,
                             !.tile = startTiles([@ EXCEPT ![t].st = st], <<t + 1>>)]
         /\ hist' = issueCall(noteSuccess(hist, ok), t + 1)
         /\ ctx' = c
         /\ UNCHANGED <<pc, idx>>
    ELSE finishExtraction([c EXCEPT !.extractions = results], ok)

SequentialCallSucceeds ==
    /\ pc = "extracting" /\ ex.mode = "sequential"
    /\ \E t \in TilePositions :
         /\ ex.tile[t].st = "calling"
         /\ seqNext(t, "ok", Append(ex.results, extractTileResult(t)), ctx)
    /\ UNCHANGED <<options, request, env, stages, response, dvars>>

SequentialCallFails ==
    /\ pc = "extracting" /\ ex.mode = "sequential"
    /\ \E t \in TilePositions :
         /\ ex.tile[t].st = "calling"
         /\ seqNext(t, "null", ex.results, addTileWarning(ctx, "ExtractionStage", "Tile failed", t))
    /\ UNCHANGED <<options, request, env, stages, response, dvars>>

\* extractParallel: one attempt of a tile of the running batch settles
ParallelCallSucceeds ==
    /\ pc = "extracting" /\ ex.mode = "parallel"
    /\ \E t \in TilePositions :
         /\ ex.tile[t].st = "calling"
         /\ ex' = [ex EXCEPT !.tile[t].st = "ok"]
         /\ hist' = noteSuccess(hist, t)
    /\ UNCHANGED <<options, request, env, stages, pc, idx, ctx, response, dvars>>

\* a failed attempt: the catch block, then the next iteration's backoff or the
\* warning after the loop
\* one retry too many
tileAfterFailureOffByOne(tileState, retryAttempts) ==
    IF tileState.attempt <= retryAttempts
    THEN [st |-> "backoff", attempt |-> tileState.attempt + 1, waited |-> 0]
    ELSE [st |-> "null", attempt |-> tileState.attempt + 1, waited |-> 0]

tileAfterFailure(tileState, retryAttempts) ==
    IF tileState.attempt < retryAttempts
    THEN [st |-> "backoff", attempt |-> tileState.attempt + 1, waited |-> 0]
    ELSE [st |-> "null", attempt |-> tileState.attempt + 1, waited |-> 0]

ParallelCallFails ==
    /\ pc = "extracting" /\ ex.mode = "parallel"
    /\ \E t \in TilePositions :
         /\ ex.tile[t].st = "calling"
         /\ LET after == tileAfterFailure(ex.tile[t], retryAttemptsOf(getTilingConfig(request.docType, options)))
            IN /\ ex' = [ex EXCEPT !.tile[t] = after]
               /\ ctx' = IF after.st = "null"
                         THEN addTileWarning(ctx, "ExtractionStage", "Tile failed after all attempts", t)
                         ELSE ctx
    /\ UNCHANGED <<options, request, env, stages, pc, idx, hist, response, dvars>>

\* Math.pow(2, attempt) * 1000, in ms
backoffDelay(attempt) == (2 ^ attempt) * 1000

\* the backoff timer of a retry fires and the next attempt is issued
BackoffElapsed ==
    /\ pc = "extracting" /\ ex.mode = "parallel"
    /\ \E t \in TilePositions :
         /\ ex.tile[t].st = "backoff"
         /\ ex' = [ex EXCEPT !.tile[t].st = "calling",
                             !.tile[t].waited = backoffDelay(ex.tile[t].attempt)]
         /\ hist' = issueCall(hist, t)
    /\ UNCHANGED <<options, request, env, stages, pc, idx, ctx, response, dvars>>

\* the results of a batch without the filter on null
batchResultsUnfiltered(batch, tile) == [i \in 1..Len(batch) |-> [tileIndex |-> ctx.tiles[batch[i]].globalIndex, src |-> batch[i]]]

\* the non-null results of a batch, in batch order
batchResults(batch, tile) ==
    LET RECURSIVE collect(_)
        collect(i) == IF i > Len(batch) THEN << >>
                      ELSE (IF tile[batch[i]].st = "ok" THEN <<extractTileResult(batch[i])>> ELSE << >>)
                           \o collect(i + 1)
    IN collect(1)

\* the results of the batch put in front of those of the batches before it
unshiftResults(results, ofBatch) == ofBatch \o results

\* results.push(...batchResults.filter(r => r !== null))
pushResults(results, ofBatch) == results \o ofBatch

\* Promise.all of the running batch resolves; the for-loop goes on
BatchSettled ==
    /\ pc = "extracting" /\ ex.mode = "parallel"
    /\ LET batch == ex.batches[ex.batchIndex + 1]
           results == pushResults(ex.results, batchResults(batch, ex.tile))
       IN /\ promiseAll(batch, ex.tile)
          /\ IF ex.batchIndex + 1 < Len(ex.batches)
             THEN /\ ex' = [ex EXCEPT !.results = results, !.batchIndex = @ + 1,
                                      !.tile = startTiles(@, ex.batches[ex.batchIndex + 2]),
                                      !.pauses = Append(@, 0)]
                  /\ hist' = issueCalls(hist, ex.batches[ex.batchIndex + 2])
                  /\ UNCHANGED <<ctx, pc, idx>>
             ELSE /\ ctx' = completeStage([ctx EXCEPT !.extractions = results], "ExtractionStage")
                  /\ hist' = noteJoin(hist, "ExtractionStage", ex.tile)
                  /\ ex' = exIdle
                  /\ idx' = idx + 1
                  /\ pc' = "loop"
    /\ UNCHANGED <<options, request, env, stages, response, dvars>>

----------------------------------------------------------------------------
(* The extraction stages of the ocr-* modes *)

\* the pages whose provider.extract call succeeded, in page order
pageResults(okPages, n) ==
    LET RECURSIVE collect(_)
        collect(i) == IF i > n THEN << >>
                      ELSE (IF i \in okPages THEN <<[tileIndex |-> undefined, src |-> i]>> ELSE << >>)
                           \o collect(i + 1)
    IN collect(1)

pageWarnings(c, okPages, n) ==
    LET RECURSIVE warn(_, _)
        warn(cc, i) == IF i > n THEN cc
                       ELSE warn(IF i \in okPages THEN cc
                                 ELSE addTileWarning(cc, "OCREnhancedExtractionStage", "Page extraction failed", i),
                                 i + 1)
    IN warn(c, 1)

OCREnhancedExtractionStage ==
    /\ Runnable("OCREnhancedExtractionStage")
    /\ \/ /\ ~env.providerConfigured
          /\ Returned("OCREnhancedExtractionStage", [ctx EXCEPT !.error = "Provider is not configured"])
       \/ /\ env.providerConfigured
          /\ \E okPages \in SUBSET (1..ctx.images) :
               Returned("OCREnhancedExtractionStage",
                        completeStage([pageWarnings(ctx, okPages, ctx.images)
                                          EXCEPT !.extractions = pageResults(okPages, ctx.images)],
                                      "OCREnhancedExtractionStage"))
    /\ UNCHANGED <<options, request, env, stages, ex, response, dvars>>

OCROnlyExtractionStage ==
    /\ Runnable("OCROnlyExtractionStage")
    /\ \/ /\ ~env.providerConfigured
          /\ Returned("OCROnlyExtractionStage", [ctx EXCEPT !.error = "Provider is not configured"])
       \/ /\ env.providerConfigured
          /\ \/ Returned("OCROnlyExtractionStage",
                         completeStage([ctx EXCEPT !.extractions = <<[tileIndex |-> undefined, src |-> 0]>>],
                                       "OCROnlyExtractionStage"))
             \/ Returned("OCROnlyExtractionStage",
                         completeStage(singleCallFailed(ctx, "OCROnlyExtractionStage",
                                                        "OCR-only extraction failed"),
                                       "OCROnlyExtractionStage"))
    /\ UNCHANGED <<options, request, env, stages, ex, response, dvars>>

OCRVerifiedExtractionStage ==
    /\ Runnable("OCRVerifiedExtractionStage")
    /\ \/ /\ ~env.providerConfigured
          /\ Returned("OCRVerifiedExtractionStage", [ctx EXCEPT !.error = "Provider is not configured"])
       \/ /\ env.providerConfigured
          /\ \/ \E verificationFailed \in BOOLEAN :
                  Returned("OCRVerifiedExtractionStage",
                           completeStage([(IF verificationFailed
                                           THEN addWarning(ctx, "OCRVerifiedExtractionStage", "Verification pass failed")
                                           ELSE ctx)
                                             EXCEPT !.extractions = <<[tileIndex |-> undefined, src |-> 0]>>],
                                         "OCRVerifiedExtractionStage"))
             \/ \E message \in {"transport", "Initial extraction returned no data"} :
                  Returned("OCRVerifiedExtractionStage",
                           completeStage(pushError([ctx EXCEPT !.error = "OCR-verified extraction failed"],
                                                   "OCRVerifiedExtractionStage", message),
                                         "OCRVerifiedExtractionStage"))
    /\ UNCHANGED <<options, request, env, stages, ex, response, dvars>>

----------------------------------------------------------------------------
(* AggregationStage, ValidationStage, CleanupStage; result is "null", "empty"
   for the object without keys, or "data" *)

AggregationStage ==
    /\ Runnable("AggregationStage")
    /\ IF Len(ctx.extractions) = 0
       THEN Returned("AggregationStage",
                     completeStage([addWarning(ctx, "AggregationStage", "No extractions to aggregate")
                                       EXCEPT !.result = "empty"], "AggregationStage"))
       ELSE Returned("AggregationStage", completeStage([ctx EXCEPT !.result = "data"], "AggregationStage"))
    /\ UNCHANGED <<options, request, env, stages, ex, response, dvars>>

ValidationStage ==
    /\ Runnable("ValidationStage")
    /\ \/ Returned("ValidationStage", completeStage(ctx, "ValidationStage"))
       \/ /\ ctx.result = "data" /\ reVerificationEnabled
          /\ Returned("ValidationStage",
                      completeStage(addWarning(ctx, "ValidationStage", "Repair failed"), "ValidationStage"))
    /\ UNCHANGED <<options, request, env, stages, ex, response, dvars>>

CleanupStage ==
    /\ Runnable("CleanupStage")
    /\ IF ctx.result = null
       THEN Returned("CleanupStage",
                     completeStage(addWarning(ctx, "CleanupStage", "No result to clean up"), "CleanupStage"))
       ELSE Returned("CleanupStage", completeStage(ctx, "CleanupStage"))
    /\ UNCHANGED <<options, request, env, stages, ex, response, dvars>>

\* aggregateResults, allItems.push(...result.drawdowns) for each result in
\* turn: the _tileIndex tags of the concatenated array when the k-th
\* extraction result holds cnt[k] rows
RECURSIVE concatTags(_, _, _)
concatTags(extractions, cnt, k) ==
    IF k > Len(extractions) THEN << >>
    ELSE [i \in 1..cnt[k] |-> extractions[k].tileIndex] \o concatTags(extractions, cnt, k + 1)

----------------------------------------------------------------------------
(* POST (src/src/app/api/recognize-v2/route.js): the response after execute *)

POST ==
    /\ pc = "returned"
    /\ response' = IF ctx.error # null
                   THEN [status |-> 500, error |-> ctx.error, details |-> ctx.errors, body |-> null]
                   ELSE [status |-> 200, error |-> null, details |-> << >>,
                         body |-> IF ctx.result = null THEN "empty" ELSE ctx.result]
    /\ pc' = "responded"
    /\ UNCHANGED <<options, request, env, stages, idx, ctx, ex, hist, dvars>>

Next ==
    \/ SkipStage
    \/ StopOnError
    \/ LoopEnd
    \/ PreprocessingStage
    \/ AzureOCRStart
    \/ OCRCallSucceeds
    \/ OCRCallFails
    \/ OCRBatchSettled
    \/ TilingStage
    \/ ExtractionStart
    \/ GeminiCallSucceeds
    \/ GeminiCallFails
    \/ SingleCallSucceeds
    \/ SingleCallFails
    \/ SequentialCallSucceeds
    \/ SequentialCallFails
    \/ ParallelCallSucceeds
    \/ ParallelCallFails
    \/ BackoffElapsed
    \/ BatchSettled
    \/ OCREnhancedExtractionStage
    \/ OCROnlyExtractionStage
    \/ OCRVerifiedExtractionStage
    \/ AggregationStage
    \/ ValidationStage
    \/ CleanupStage
    \/ POST

Spec == Init /\ [][Next]_vars

----------------------------------------------------------------------------
(* The rows of a drawdown request (SpecData).                              *)
(*                                                                         *)
(* A row is what the model returned for one table line plus the internal   *)
(* keys the stages attach to it: marks is the set of such keys the row     *)
(* owns, tileIndex the value stored under _tileIndex.  Amounts and sums    *)
(* are counted in thousandths, so that rounding to two decimals changes a  *)
(* value.  A string that the code takes apart (an IBAN) is spelled out in  *)
(* chars, the sequence of its characters.                                  *)

\* rows one model answer holds at most
MaxRows == 1

Letters ==
    <<"A", "B", "C", "D", "E", "F", "G", "H", "I", "J", "K", "L", "M",
      "N", "O", "P", "Q", "R", "S", "T", "U", "V", "W", "X", "Y", "Z">>

Digits == <<"0", "1", "2", "3", "4", "5", "6", "7", "8", "9">>

LetterSet == Range(Letters)

DigitSet == Range(Digits)

IsLetter(c) == c \in LetterSet

IsDigit(c) == c \in DigitSet

IsNoSpace(c) == c # " "

\* String.prototype.toUpperCase on the lower-case letters the inputs hold
toUpperCase(str) ==
    [i \in 1..Len(str) |->
        CASE str[i] = "s" -> "S" [] str[i] = "k" -> "K"
          [] str[i] = "c" -> "C" [] str[i] = "z" -> "Z" [] OTHER -> str[i]]

\* a Slovak IBAN and strings around it
IbanA == "SK3112000000198742637541"

\* IbanA as printed on a document
IbanS == "sk31 1200 0000 1987 4263 7541"

\* IbanA with its last digit misread
IbanT == "SK3112000000198742637547"

\* another Slovak IBAN, one character from IbanT
IbanE == "SK3112000000198742637347"

\* another Slovak IBAN, two characters from IbanT
IbanB == "SK3112000000178742637542"

\* a Slovak IBAN of an unrelated account
IbanF == "SK1399990000999900009999"

\* a Czech IBAN, and the same string with the country misread
IbanC == "CZ3312000000198742637541"

IbanX == "SK3312000000198742637541"

KnownIbans == {IbanA, IbanS, IbanT, IbanE, IbanB, IbanF, IbanC, IbanX}

\* the characters of each string
chars ==
    (IbanS :> <<"s","k","3","1"," ","1","2","0","0"," ","0","0","0","0"," ","1","9","8","7"," ","4","2","6","3"," ","7","5","4","1">>) @@
    (IbanA :> <<"S","K","3","1","1","2","0","0","0","0","0","0","1","9","8","7","4","2","6","3","7","5","4","1">>) @@
    (IbanT :> <<"S","K","3","1","1","2","0","0","0","0","0","0","1","9","8","7","4","2","6","3","7","5","4","7">>) @@
    (IbanE :> <<"S","K","3","1","1","2","0","0","0","0","0","0","1","9","8","7","4","2","6","3","7","3","4","7">>) @@
    (IbanB :> <<"S","K","3","1","1","2","0","0","0","0","0","0","1","7","8","7","4","2","6","3","7","5","4","2">>) @@
    (IbanF :> <<"S","K","1","3","9","9","9","9","0","0","0","0","9","9","9","9","0","0","0","0","9","9","9","9">>) @@
    (IbanC :> <<"C","Z","3","3","1","2","0","0","0","0","0","0","1","9","8","7","4","2","6","3","7","5","4","1">>) @@
    (IbanX :> <<"S","K","3","3","1","2","0","0","0","0","0","0","1","9","8","7","4","2","6","3","7","5","4","1">>)

\* the string of a sequence of characters
stringOf(cs) == CHOOSE str \in KnownIbans : chars[str] = cs

\* str.replace(/\s/g, '').toUpperCase() for each string, computed once
knownNormalized ==
    {<<str, stringOf(toUpperCase(SelectSeq(chars[str], IsNoSpace)))>> : str \in KnownIbans}

\* iban.replace(/\s/g, '').toUpperCase()
normalizedIban(str) == (CHOOSE known \in knownNormalized : known[1] = str)[2]

\* the IBAN strings a model answer holds
Ibans == {IbanA, IbanT}

ModelRows ==
    [invoiceNumber : {"f1", "f2"}, variableSymbol : {""}, iban : Optional(Ibans),
     amount : Optional({1005}), marks : {{}}, tileIndex : {undefined},
     pageIndex : {undefined}, sliceIndex : {undefined}]

RowSeqs == UNION {[1..k -> ModelRows] : k \in 0..MaxRows}

\* rows the answer of the verification pass of ocr-verified holds at most
MaxAnswerRows == 2

AnswerSeqs == UNION {[1..k -> ModelRows] : k \in 0..MaxAnswerRows}

\* the data of a provider.extract answer under the drawdown schema
ModelData == [totalSum : {<<1010>>, <<2010>>}, drawdowns : {<<rows>> : rows \in RowSeqs}]

\* the object without keys
EmptyResult == [totalSum |-> undefined, drawdowns |-> undefined]

\* the value of a character in the MOD-97 number: A = 10, ..., Z = 35
charValues ==
    [c \in LetterSet \cup DigitSet |->
        IF IsLetter(c) THEN 9 + (CHOOSE k \in 1..26 : Letters[k] = c)
        ELSE (CHOOSE k \in 1..10 : Digits[k] = c) - 1]

charValue(c) == charValues[c]

\* BigInt(numeric) % 97n, digit by digit, over rearranged[i..]
RECURSIVE mod97(_, _, _)
mod97(rearranged, i, r) ==
    IF i > Len(rearranged) THEN r
    ELSE mod97(rearranged, i + 1,
               IF IsLetter(rearranged[i]) THEN (r * 100 + charValue(rearranged[i])) % 97
               ELSE (r * 10 + charValue(rearranged[i])) % 97)

\* /^[A-Z]{2}[0-9]{2}[A-Z0-9]{11,30}$/
ibanShape(str) ==
    /\ Len(str) >= 15 /\ Len(str) <= 34
    /\ \A i \in 1..2 : IsLetter(str[i])
    /\ \A i \in 3..4 : IsDigit(str[i])
    /\ \A i \in 5..Len(str) : IsLetter(str[i]) \/ IsDigit(str[i])

\* validateIBAN on a normalized string: the pattern and the remainder
passesMod97(normalized) ==
    LET cs == chars[normalized]
    IN /\ ibanShape(cs)
       /\ mod97(SubSeq(cs, 5, Len(cs)) \o SubSeq(cs, 1, 4), 1, 0) = 1

\* the normalized strings that pass, computed once
knownValid == {str \in KnownIbans : passesMod97(str)}

\* validateIBAN (part_011)
validateIBAN(iban) ==
    /\ iban # undefined /\ iban[1] # ""
    /\ normalizedIban(iban[1]) \in knownValid

\* validateIBANDetailed, of which only the verdict is read here (spec 4.8)
validateIBANDetailed(iban) == [valid |-> validateIBAN(iban)]

\* normalizeIBAN(iban).coreDigits
coreDigits(str) ==
    LET normalized == chars[normalizedIban(str)]
    IN SelectSeq(SubSeq(normalized, 5, Len(normalized)), IsDigit)

\* calculateSimilarity as the pair matches / longer.length
calculateSimilarity(str1, str2) ==
    IF str1 = << >> \/ str2 = << >> THEN [matches |-> 0, of |-> 1]
    ELSE IF str1 = str2 THEN [matches |-> 1, of |-> 1]
    ELSE [matches |-> Cardinality({i \in 1..Min(Len(str1), Len(str2)) : str1[i] = str2[i]}),
          of |-> IF Len(str1) > Len(str2) THEN Len(str1) ELSE Len(str2)]

\* similarity > 0.8 in deduplicateRows
similarIbans(a, b) ==
    LET similarity == calculateSimilarity(coreDigits(a[1]), coreDigits(b[1]))
    IN 10 * similarity.matches > 8 * similarity.of

\* parseFloat(item.amount) || 0
amountOrZero(row) == IF row.amount = undefined THEN 0 ELSE row.amount[1]

RECURSIVE sumAmounts(_)
sumAmounts(rows) == IF rows = << >> THEN 0 ELSE amountOrZero(Head(rows)) + sumAmounts(Tail(rows))

\* Math.round(x * 100) / 100 on thousandths
round2(m) == ((m + 5) \div 10) * 10

IsNonEmpty(v) == v # ""

\* keyFieldsMap[docType] || []
keyFields(docType) ==
    CASE docType = "drawdown" -> <<"variableSymbol", "invoiceNumber">>
      [] docType = "invoice" -> <<"invoiceNumber">>
      [] docType = "bankStatement" -> <<"date", "description", "amount">>
      [] docType = "loanContract" -> <<"contractNumber">>
      [] OTHER -> << >>

\* String.prototype.trim().toLowerCase() on the key values the rows hold
trimLowerCase(str) ==
    CASE str = "F1 " -> "f1"
      [] str = " V1" -> "v1"
      [] OTHER -> str

\* String(row[field] || '').trim().toLowerCase(), for the string fields
keyValue(row, field) == IF field \in DOMAIN row THEN trimLowerCase(row[field]) ELSE ""

\* keyParts.join('|')
RECURSIVE join(_)
join(parts) ==
    IF Len(parts) = 1 THEN parts[1] ELSE parts[1] \o "|" \o join(Tail(parts))

\* the composite key of deduplicateRows: the non-empty parts
keyParts(row, docType) ==
    LET fields == keyFields(docType)
    IN SelectSeq([i \in 1..Len(fields) |-> keyValue(row, fields[i])], IsNonEmpty)

\* a duplicate never takes the place of the first occurrence
isBetterVersionNever(docType, row, existing) == FALSE

\* the smart selection on a duplicate: the new row takes the place of the
\* stored one
isBetterVersion(docType, row, existing) ==
    /\ docType = "drawdown"
    /\ row.iban # undefined /\ existing.iban # undefined
    /\ similarIbans(row.iban, existing.iban)
    /\ validateIBAN(row.iban) /\ ~validateIBAN(existing.iban)

\* the loop of deduplicateRows over rows[i..]: seen maps a key to its best
\* row, order holds one entry per row without key and per first-seen key
RECURSIVE dedupWalk(_, _, _, _, _)
dedupWalk(rows, docType, i, seen, order) ==
    IF i > Len(rows) THEN [seen |-> seen, order |-> order]
    ELSE LET row == rows[i]
             parts == keyParts(row, docType)
         IN IF parts = << >>
            THEN dedupWalk(rows, docType, i + 1, seen, Append(order, [key |-> undefined, row |-> <<row>>]))
            ELSE LET key == join(parts)
                 IN IF key \notin DOMAIN seen
                    THEN dedupWalk(rows, docType, i + 1,
                                   [k \in DOMAIN seen \cup {key} |-> IF k = key THEN row ELSE seen[k]],
                                   Append(order, [key |-> <<key>>, row |-> undefined]))
                    ELSE dedupWalk(rows, docType, i + 1,
                                   IF isBetterVersion(docType, row, seen[key])
                                   THEN [seen EXCEPT ![key] = row] ELSE seen, order)

\* an emission that puts every later entry in front
RECURSIVE dedupEmitNewestFirst(_, _, _, _)
dedupEmitNewestFirst(order, i, seen, result) ==
    IF i > Len(order) THEN result
    ELSE LET entry == order[i]
             bestRow == IF entry.key = undefined THEN entry.row[1] ELSE seen[entry.key[1]]
         IN dedupEmitNewestFirst(order, i + 1, seen,
                                 IF entry.key # undefined /\ bestRow \in Range(result)
                                 THEN result ELSE <<bestRow>> \o result)

RECURSIVE dedupEmit(_, _, _, _)
dedupEmit(order, i, seen, result) ==
    IF i > Len(order) THEN result
    ELSE LET entry == order[i]
             bestRow == IF entry.key = undefined THEN entry.row[1] ELSE seen[entry.key[1]]
         IN dedupEmit(order, i + 1, seen,
                      IF entry.key # undefined /\ bestRow \in Range(result)
                      THEN result ELSE Append(result, bestRow))

\* no deduplication at all
deduplicateRowsKeepingAll(rows, docType) == rows

deduplicateRows(rows, docType) ==
    IF rows = << >> \/ keyFields(docType) = << >> THEN rows
    ELSE LET w == dedupWalk(rows, docType, 1, [k \in {} |-> << >>], << >>)
         IN dedupEmit(w.order, 1, w.seen, << >>)

\* arrayFieldMap[docType]
arrayField(docType) ==
    CASE docType = "drawdown" -> <<"drawdowns">>
      [] docType = "invoice" -> <<"invoiceRows">>
      [] docType = "bankStatement" -> <<"transactions">>
      [] OTHER -> undefined

\* the rows of the array field of every result, concatenated
RECURSIVE allItems(_, _)
allItems(results, field) ==
    IF results = << >> THEN << >>
    ELSE (IF field \notin DOMAIN Head(results) \/ Head(results)[field] = undefined
          THEN << >> ELSE Head(results)[field][1])
         \o allItems(Tail(results), field)

\* { ...merged, ...result } on objects whose absent keys are held as undefined
mergeObjects(merged, result) ==
    [k \in (DOMAIN merged) \cup (DOMAIN result) |->
        IF k \in DOMAIN result /\ result[k] # undefined THEN result[k]
        ELSE IF k \in DOMAIN merged THEN merged[k] ELSE undefined]

\* an aggregation that keeps the first value of every field
RECURSIVE reduceKeepingFirst(_, _)
reduceKeepingFirst(results, merged) ==
    IF results = << >> THEN merged
    ELSE reduceKeepingFirst(Tail(results), mergeObjects(Head(results), merged))

\* results.reduce((merged, result) => ({ ...merged, ...result }), {})
RECURSIVE reduceMerge(_, _)
reduceMerge(results, merged) ==
    IF results = << >> THEN merged
    ELSE reduceMerge(Tail(results), mergeObjects(merged, Head(results)))

\* aggregateResults(results, docType)
aggregateResults(results, docType) ==
    IF Len(results) = 0 THEN EmptyResult
    ELSE IF Len(results) = 1 THEN results[1]
    ELSE IF arrayField(docType) = undefined
    THEN reduceMerge(results, [k \in {} |-> undefined])
    ELSE LET field == arrayField(docType)[1]
             rows == deduplicateRows(allItems(results, field), docType)
             baseResult == [k \in (DOMAIN results[1]) \cup {field} |->
                               IF k = field THEN <<rows>> ELSE results[1][k]]
         IN IF docType = "drawdown"
            THEN [k \in (DOMAIN baseResult) \cup {"totalSum"} |->
                     IF k = "totalSum" THEN <<round2(sumAmounts(rows))>> ELSE baseResult[k]]
            ELSE baseResult

----------------------------------------------------------------------------
(* The extraction stages on rows *)

\* extractTile: every row of the answer is tagged with its tile
tagRow(row, tile) ==
    [row EXCEPT !.marks = @ \cup {"_tileIndex", "_pageIndex", "_sliceIndex"},
                !.tileIndex = tile.globalIndex,
                !.pageIndex = <<tile.pageIndex>>,
                !.sliceIndex = <<tile.sliceIndex>>]

extractTile(tile, data) ==
    [data |-> [data EXCEPT !.drawdowns = <<[i \in 1..Len(data.drawdowns[1]) |->
                                              tagRow(data.drawdowns[1][i], tile)]>>],
     tileIndex |-> tile.globalIndex]

HasValidIban(row) == validateIBAN(row.iban)

HasNoValidIban(row) == ~validateIBAN(row.iban)

\* OCRVerifiedExtractionStage.validateItems
markInvalid(item) ==
    [item EXCEPT !.marks = @ \cup (IF item.iban = undefined
                                   THEN {"_validationError", "_validationIssue"}
                                   ELSE {"_validationError", "_validationIssue", "_validationDetails"})]

validateItems(items) ==
    LET IsValid(item) == item.iban # undefined /\ validateIBANDetailed(item.iban).valid
        IsInvalid(item) == ~IsValid(item)
        invalid == SelectSeq(items, IsInvalid)
    IN [validItems |-> SelectSeq(items, IsValid),
        invalidItems |-> [i \in 1..Len(invalid) |-> markInvalid(invalid[i])]]

Min3(a, b, c) == Min(a, Min(b, c))

\* row i of the matrix of levenshteinDistance: row holds matrix[i][0..j-1]
\* for j = Len(row), prev is matrix[i-1], bc is b.charAt(i - 1)
RECURSIVE levRow(_, _, _, _)
levRow(a, bc, prev, row) ==
    IF Len(row) > Len(a) THEN row
    ELSE LET j == Len(row)
         IN levRow(a, bc, prev,
                   Append(row, IF bc = a[j] THEN prev[j]
                               ELSE Min3(prev[j] + 1, row[j] + 1, prev[j + 1] + 1)))

\* the rows of the matrix from row Len(matrix) on
RECURSIVE levRows(_, _, _)
levRows(a, b, matrix) ==
    IF Len(matrix) > Len(b) THEN matrix[Len(b) + 1][Len(a) + 1]
    ELSE LET i == Len(matrix)
         IN levRows(a, b, Append(matrix, levRow(a, b[i], matrix[i], <<i>>)))

\* the matrix of levenshteinDistance filled in, its last cell returned
levMatrix(a, b) ==
    IF Len(a) = 0 THEN Len(b)
    ELSE IF Len(b) = 0 THEN Len(a)
    ELSE levRows(a, b, <<[j \in 1..(Len(a) + 1) |-> j - 1]>>)

\* the distances between the strings above, computed once
knownDistances == {<<a, b, levMatrix(chars[a], chars[b])>> : a \in KnownIbans, b \in KnownIbans}

\* OCRVerifiedExtractionStage.levenshteinDistance
levenshteinDistance(a, b) == (CHOOSE known \in knownDistances : known[1] = a /\ known[2] = b)[3]

\* str.slice(0, 2)
countryOf(str) == SubSeq(chars[str], 1, Min(2, Len(chars[str])))

maxDistance == 3

\* the loop of findBestIBANMatch over validIbans[i..]; best is bestMatch with
\* bestDistance, undefined while bestMatch is null
RECURSIVE bestMatchAnyCountry(_, _, _, _)
bestMatchAnyCountry(invalidIban, validIbans, i, best) ==
    IF i > Len(validIbans) THEN best
    ELSE LET validIban == validIbans[i]
             distance == levenshteinDistance(invalidIban, validIban)
         IN IF (best = undefined \/ distance < best[1].distance) /\ distance <= maxDistance
            THEN bestMatchAnyCountry(invalidIban, validIbans, i + 1,
                                     <<[iban |-> validIban, distance |-> distance]>>)
            ELSE bestMatchAnyCountry(invalidIban, validIbans, i + 1, best)

RECURSIVE bestMatchFrom(_, _, _, _)
bestMatchFrom(invalidIban, validIbans, i, best) ==
    IF i > Len(validIbans) THEN best
    ELSE LET validIban == validIbans[i]
             distance == levenshteinDistance(invalidIban, validIban)
         IN IF countryOf(invalidIban) # countryOf(validIban)
            THEN bestMatchFrom(invalidIban, validIbans, i + 1, best)
            ELSE IF (best = undefined \/ distance < best[1].distance) /\ distance <= maxDistance
            THEN bestMatchFrom(invalidIban, validIbans, i + 1,
                               <<[iban |-> validIban, distance |-> distance]>>)
            ELSE bestMatchFrom(invalidIban, validIbans, i + 1, best)

\* OCRVerifiedExtractionStage.findBestIBANMatch
findBestIBANMatch(invalidIban, validIbans) ==
    IF invalidIban = "" \/ Len(validIbans) = 0 THEN undefined
    ELSE bestMatchFrom(invalidIban, validIbans, 1, undefined)

IsValidIbanString(str) == validateIBAN(<<str>>)

\* the ocrIbans of correctIBANsFromOCR; ocrText is the OCR text as the
\* sequence of the strings in it that ibanPattern matches
ocrIbansOf(ocrText) ==
    SelectSeq([i \in 1..Len(ocrText) |-> normalizedIban(ocrText[i])], IsValidIbanString)

\* (item.iban || '').replace(/\s/g, '').toUpperCase()
invalidIbanOf(item) == IF item.iban = undefined THEN "" ELSE normalizedIban(item.iban[1])

\* OCRVerifiedExtractionStage.correctIBANsFromOCR
correctIBANsFromOCR(invalidItems, ocrText) ==
    LET ocrIbans == ocrIbansOf(ocrText)
        bestMatch(item) == findBestIBANMatch(invalidIbanOf(item), ocrIbans)
        Fixable(item) == invalidIbanOf(item) # "" /\ bestMatch(item) # undefined
        Unfixable(item) == ~Fixable(item)
        fixable == SelectSeq(invalidItems, Fixable)
    IN IF ocrText = << >> THEN [corrected |-> << >>, stillInvalid |-> invalidItems]
       ELSE [corrected |-> [i \in 1..Len(fixable) |->
                              [fixable[i] EXCEPT !.iban = <<bestMatch(fixable[i])[1].iban>>,
                                                 !.marks = @ \cup {"_ocrCorrected"}]],
             stillInvalid |-> SelectSeq(invalidItems, Unfixable)]

\* the verified rows of performVerificationPass; answer is the rows the model
\* returned, undefined when the call failed
performVerificationPass(answer) ==
    IF answer = undefined THEN << >> ELSE SelectSeq(answer[1], HasValidIban)

\* String(invoiceNumber).trim().toLowerCase().replace(/\s+/g, '') on the
\* invoice numbers the inputs hold
normalizeInvoiceNumber(invoiceNumber) ==
    CASE invoiceNumber = "F 1" -> "f1"
      [] invoiceNumber = " f2" -> "f2"
      [] OTHER -> invoiceNumber

\* mergeResults: the corrected items whose invoice number is not yet taken
RECURSIVE mergeResults(_, _)
mergeResults(validItems, correctedItems) ==
    IF correctedItems = << >> THEN validItems
    ELSE LET item == Head(correctedItems)
             taken == {normalizeInvoiceNumber(validItems[i].invoiceNumber) : i \in 1..Len(validItems)}
         IN mergeResults(IF normalizeInvoiceNumber(item.invoiceNumber) \in taken
                         THEN validItems ELSE Append(validItems, item),
                         Tail(correctedItems))

\* OCRVerifiedExtractionStage.process after the initial answer
ocrVerified(initial, ocrText, answer) ==
    LET v == validateItems(initial.drawdowns[1])
        c == IF v.invalidItems = << >> THEN [corrected |-> << >>, stillInvalid |-> << >>]
             ELSE correctIBANsFromOCR(v.invalidItems, ocrText)
        afterOCR == v.validItems \o c.corrected
        finalItems == IF c.stillInvalid = << >> THEN afterOCR
                      ELSE mergeResults(afterOCR, performVerificationPass(answer))
    IN [initial EXCEPT !.drawdowns = <<finalItems>>]

----------------------------------------------------------------------------
(* IBANValidator and ValidationStage.runValidator on rows *)

\* BaseValidator.findInvalid with IBANValidator.validate
findInvalid(items) == SelectSeq(items, HasNoValidIban)

\* item._tileIndex, 0 for a row without tile tracking
tileIdxOf(item) == IF item.tileIndex = undefined THEN 0 ELSE item.tileIndex[1]

RECURSIVE firstSeen(_, _)
firstSeen(q, acc) ==
    IF q = << >> THEN acc
    ELSE firstSeen(Tail(q), IF Head(q) \in Range(acc) THEN acc ELSE Append(acc, Head(q)))

\* the keys of itemsByTile in insertion order
tileGroups(invalidItems) ==
    LET Tracked(item) == item.tileIndex # undefined
        tracked == SelectSeq(invalidItems, Tracked)
        idxs == firstSeen([i \in 1..Len(tracked) |-> tracked[i].tileIndex[1]], << >>)
    IN IF Len(tracked) < Len(invalidItems) /\ 0 \notin Range(idxs) THEN Append(idxs, 0) ELSE idxs

\* reVerifyTile: of the rows the model returned, those asked about that now validate
reVerifyTile(items, answer) ==
    LET requestedInvoices == {trimLowerCase(items[i].invoiceNumber) : i \in 1..Len(items)}
        Accepted(corrected) == /\ trimLowerCase(corrected.invoiceNumber) \in requestedInvoices
                               /\ validateIBAN(corrected.iban)
    IN SelectSeq(answer, Accepted)

\* itemsByTile.get(tileIdx): the rows filed under a tile index
itemsByTile(invalidItems, tileIdx) ==
    LET InGroup(item) == tileIdxOf(item) = tileIdx
    IN SelectSeq(invalidItems, InGroup)

\* the loop of IBANValidator.repair over the tile groups; answers[g] is what the
\* model returned for tile g, << >> also when the call failed
RECURSIVE repairGroups(_, _, _, _)
repairGroups(groups, invalidItems, tiles, answers) ==
    IF groups = << >> THEN << >>
    ELSE LET g == Head(groups)
             rest == repairGroups(Tail(groups), invalidItems, tiles, answers)
         IN IF g + 1 > Len(tiles) THEN rest
            ELSE reVerifyTile(itemsByTile(invalidItems, g), answers[g]) \o rest

repair(invalidItems, tiles, openAI, answers) ==
    IF invalidItems = << >> \/ ~openAI THEN << >>
    ELSE repairGroups(tileGroups(invalidItems), invalidItems, tiles, answers)

\* the tiles IBANValidator.repair sends to the model
repairCalls(items, tiles, openAI) ==
    IF ~openAI THEN {}
    ELSE {g \in Range(tileGroups(findInvalid(items))) : g + 1 <= Len(tiles)}

\* the calls of reVerifyTile: the tile whose images are sent and the rows
\* listed in the prompt
reVerifyCalls(items, tiles, openAI) ==
    {[tile |-> tiles[g + 1], items |-> itemsByTile(findInvalid(items), g)] :
        g \in repairCalls(items, tiles, openAI)}

\* BaseValidator.getItemKey
getItemKey(item) == IF item.invoiceNumber = "" THEN undefined ELSE <<trimLowerCase(item.invoiceNumber)>>

\* BaseValidator.applyRepairs: the last repair of a key is the one applied
applyRepairs(items, repairs) ==
    [i \in 1..Len(items) |->
        LET key == getItemKey(items[i])
            hits == {j \in 1..Len(repairs) : key # undefined /\ getItemKey(repairs[j]) = key}
        IN IF hits = {} THEN items[i]
           ELSE [items[i] EXCEPT !.iban = repairs[CHOOSE j \in hits : \A k \in hits : k <= j].iban]]

\* the flags runValidator adds to a row that is still invalid
flagInvalid(item) ==
    IF HasNoValidIban(item)
    THEN [item EXCEPT !.marks = @ \cup {"_validationIssue", "_validationDetails"}]
    ELSE item

runValidator(items, tiles, openAI, answers) ==
    IF findInvalid(items) = << >> \/ ~reVerificationEnabled THEN items
    ELSE LET repaired == applyRepairs(items, repair(findInvalid(items), tiles, openAI, answers))
         IN [i \in 1..Len(repaired) |-> flagInvalid(repaired[i])]

\* CleanupStage
INTERNAL_FIELDS == {"_tileIndex", "_pageIndex", "_sliceIndex", "_sourceId"}

removeInternalFields(item) ==
    [item EXCEPT !.marks = @ \ INTERNAL_FIELDS, !.tileIndex = undefined,
                 !.pageIndex = undefined, !.sliceIndex = undefined]

cleanupResult(result) ==
    IF result.drawdowns = undefined THEN result
    ELSE [result EXCEPT !.drawdowns = <<[i \in 1..Len(result.drawdowns[1]) |->
                                            removeInternalFields(result.drawdowns[1][i])]>>]

----------------------------------------------------------------------------
(* SpecData: one drawdown request whose pages are rendered and need no     *)
(* slicing, from the first model call to the response; every stage is one  *)
(* step, ExtractionStage one step per tile in tile order.                  *)

DataOptions ==
    {o \in ParsedOptions :
        /\ o.pipelineMode \in {"default", "ocr-verified"}
        /\ o.pipelineMode = "ocr-verified" => isOpenAIProvider(o)
        /\ o.enableTiling # <<FALSE>>
        /\ o.parallelMode = undefined
        /\ o.sliceHeight = undefined
        /\ o.useAzureOCR = undefined
        /\ o.ocrConcurrency = undefined}

DataRequests ==
    [mimeType : {"application/pdf"}, docType : {"drawdown"}, pages : {<<0>>, <<0, 0>>}]

\* context.tiles when the extraction stage starts
tilesOf(req, o) ==
    IF o.pipelineMode # "default" \/ ~isOpenAIProvider(o) THEN << >>
    ELSE IF ~TruthyBool(getTilingConfig(req.docType, o).enableTiling) THEN plainTiles(Len(req.pages))
    ELSE buildTiles(req.pages, 0, 0)

InitData ==
    /\ \E o \in DataOptions :
         /\ options = withAutoOCR(o)
         /\ stages = buildPipeline(o.pipelineMode)
    /\ request \in DataRequests
    /\ env = [providerConfigured |-> TRUE, visionConfigured |-> TRUE]
    /\ pc = "rows"
    /\ idx = 1
    /\ ctx = NewContext
    /\ ex = exIdle
    /\ hist = NewHist
    /\ response = NoResponse
    /\ dctx = [NewData EXCEPT !.tiles = tilesOf(request, options)]
    /\ dpc = "extract"
    /\ lg = legacyIdle
    /\ ov = ovIdle
    /\ fn = fnIdle

TiledExtraction == options.pipelineMode = "default" /\ isOpenAIProvider(options)

afterTile(t) == IF t = Len(dctx.tiles) THEN "aggregate" ELSE "extract"

\* ExtractionStage: the call for the next tile returns data
DataTileExtracted ==
    /\ dpc = "extract" /\ TiledExtraction
    /\ LET t == dctx.cursor + 1
       IN /\ \E data \in ModelData :
               dctx' = [dctx EXCEPT !.cursor = t,
                                    !.emitted = @ + Len(data.drawdowns[1]),
                                    !.extractions = Append(@, extractTile(dctx.tiles[t], data))]
          /\ dpc' = afterTile(t)
    /\ UNCHANGED <<pvars, lg, ov, fn>>

\* ExtractionStage: the call for the next tile fails for good
DataTileFailed ==
    /\ dpc = "extract" /\ TiledExtraction
    /\ LET t == dctx.cursor + 1
       IN IF Len(dctx.tiles) = 1
          THEN /\ dctx' = [dctx EXCEPT !.cursor = t, !.error = "transport"]
               /\ dpc' = "respond"
          ELSE /\ dctx' = [dctx EXCEPT !.cursor = t]
               /\ dpc' = afterTile(t)
    /\ UNCHANGED <<pvars, lg, ov, fn>>

\* ExtractionStage.extractWithGemini
DataExtractWithGemini ==
    /\ dpc = "extract" /\ options.pipelineMode = "default" /\ ~isOpenAIProvider(options)
    /\ \/ /\ \E data \in ModelData :
               dctx' = [dctx EXCEPT !.emitted = Len(data.drawdowns[1]),
                                    !.extractions = <<[data |-> data, tileIndex |-> undefined]>>]
          /\ dpc' = "aggregate"
       \/ /\ dctx' = [dctx EXCEPT !.error = "Gemini extraction failed"]
          /\ dpc' = "respond"
    /\ UNCHANGED <<pvars, lg, ov, fn>>

\* OCRVerifiedExtractionStage.process
DataOCRVerifiedExtraction ==
    /\ dpc = "extract" /\ options.pipelineMode = "ocr-verified"
    /\ \/ /\ \E initial \in ModelData, answer \in AnswerSeqs, ocrText \in {<< >>, <<IbanA>>} :
               dctx' = [dctx EXCEPT !.emitted = Len(initial.drawdowns[1]),
                                    !.extractions =
                           <<[data |-> ocrVerified(initial, ocrText, <<answer>>), tileIndex |-> undefined]>>]
          /\ dpc' = "aggregate"
       \/ /\ dctx' = [dctx EXCEPT !.error = "OCR-verified extraction failed"]
          /\ dpc' = "respond"
    /\ UNCHANGED <<pvars, lg, ov, fn>>

\* AggregationStage.process
DataAggregationStage ==
    /\ dpc = "aggregate"
    /\ dctx' = [dctx EXCEPT !.result =
                  <<IF Len(dctx.extractions) = 0 THEN EmptyResult
                    ELSE IF Len(dctx.extractions) = 1 THEN dctx.extractions[1].data
                    ELSE aggregateResults([i \in 1..Len(dctx.extractions) |-> dctx.extractions[i].data],
                                          request.docType)>>]
    /\ dpc' = "validate"
    /\ UNCHANGED <<pvars, lg, ov, fn>>

\* ValidationStage.process with the one validator of drawdown
DataValidationStage ==
    /\ dpc = "validate"
    /\ LET result == dctx.result[1]
       IN IF result.drawdowns = undefined \/ getValidatorsForDocType(request.docType) = << >>
          THEN dctx' = dctx
          ELSE \E answers \in [repairCalls(result.drawdowns[1], dctx.tiles, isOpenAIProvider(options))
                                 -> RowSeqs] :
                 dctx' = [dctx EXCEPT !.result =
                            <<[result EXCEPT !.drawdowns =
                                 <<runValidator(result.drawdowns[1], dctx.tiles,
                                                isOpenAIProvider(options), answers)>>]>>,
                                      !.reVerified = reVerifyCalls(result.drawdowns[1], dctx.tiles,
                                                                   isOpenAIProvider(options))]
    /\ dpc' = "cleanup"
    /\ UNCHANGED <<pvars, lg, ov, fn>>

\* CleanupStage.process
DataCleanupStage ==
    /\ dpc = "cleanup"
    /\ dctx' = [dctx EXCEPT !.result = <<cleanupResult(dctx.result[1])>>]
    /\ dpc' = "respond"
    /\ UNCHANGED <<pvars, lg, ov, fn>>

\* POST after execute; debugVerbose: process.env.DEBUG_VERBOSE === 'true'
DataPOST ==
    /\ dpc = "respond"
    /\ \/ /\ dctx.error # null
          /\ dctx' = [dctx EXCEPT !.response = [status |-> 500, body |-> undefined, meta |-> FALSE]]
       \/ /\ dctx.error = null
          /\ \E debugVerbose \in BOOLEAN :
               dctx' = [dctx EXCEPT !.response = [status |-> 200, body |-> dctx.result, meta |-> debugVerbose]]
    /\ dpc' = "done"
    /\ UNCHANGED <<pvars, lg, ov, fn>>

NextData ==
    \/ DataTileExtracted
    \/ DataTileFailed
    \/ DataExtractWithGemini
    \/ DataOCRVerifiedExtraction
    \/ DataAggregationStage
    \/ DataValidationStage
    \/ DataCleanupStage
    \/ DataPOST

SpecData == InitData /\ [][NextData]_vars

----------------------------------------------------------------------------
(* SpecLegacy: processParallelMode of src/src/services/openai.service.js,   *)
(* the parallel branch of analyzeWithOpenAI behind the recognize route.     *)
(* The tile at position t of tileContents has globalIndex t - 1.            *)

DEFAULT_TILING == [maxConcurrency |-> 5, retryAttempts |-> 2]

\* { ...DEFAULT_TILING, ...options } for the tilingOptions the caller hands over
normalizeTilingOptions(o) ==
    [DEFAULT_TILING EXCEPT !.maxConcurrency = IF o.maxConcurrency = undefined THEN @ ELSE o.maxConcurrency[1]]

\* tileContents.slice(i, i + maxConcurrency), as positions
legacyBatch(l) == {t \in 1..l.n : l.i < t /\ t <= l.i + l.maxConcurrency}

\* batch.map(async ...): the first attempt of every tile of the batch is issued
legacyDispatch(l) ==
    [l EXCEPT !.tile = [t \in DOMAIN @ |-> IF t \in legacyBatch(l)
                                           THEN [st |-> "calling", attempt |-> 0, waited |-> 0]
                                           ELSE @[t]]]

RECURSIVE ascending(_)
ascending(S) ==
    IF S = {} THEN << >>
    ELSE LET m == CHOOSE x \in S : \A y \in S : x <= y
         IN <<m>> \o ascending(S \ {m})

\* results.filter(r => r.success).sort((a, b) => a.index - b.index)
legacySorted(results) == ascending({results[k].index : k \in {j \in 1..Len(results) : results[j].success}})

\* analyzeWithOpenAI calls processParallelMode for two tiles or more
InitLegacy ==
    /\ options \in [maxConcurrency : Optional(1..MaxConcurrencyOption)]
    /\ request \in [docType : {"drawdown"}, tiles : 2..MaxTiles]
    /\ env = [providerConfigured |-> TRUE, visionConfigured |-> TRUE]
    /\ stages = << >>
    /\ pc = "legacy"
    /\ idx = 1
    /\ ctx = NewContext
    /\ ex = exIdle
    /\ hist = NewHist
    /\ response = NoResponse
    /\ dctx = NewData
    /\ dpc = "off"
    /\ lg = legacyDispatch([legacyIdle EXCEPT
                              !.st = "running",
                              !.n = request.tiles,
                              !.maxConcurrency = normalizeTilingOptions(options).maxConcurrency,
                              !.retryAttempts = normalizeTilingOptions(options).retryAttempts,
                              !.tile = [t \in 1..request.tiles |-> [st |-> "idle", attempt |-> 0, waited |-> 0]]])
    /\ ov = ovIdle
    /\ fn = fnIdle

\* makeOpenAIResponsesCall resolves for a tile
LegacyCallSucceeds ==
    /\ lg.st = "running"
    /\ \E t \in DOMAIN lg.tile :
         /\ lg.tile[t].st = "calling"
         /\ lg' = [lg EXCEPT !.tile[t].st = "ok"]
    /\ UNCHANGED <<pvars, dctx, dpc, ov, fn>>

\* the catch block: the last attempt gives up, an earlier one starts the
\* backoff timer Math.pow(2, attempt) * 1000 of the attempt that failed
LegacyCallFails ==
    /\ lg.st = "running"
    /\ \E t \in DOMAIN lg.tile :
         /\ lg.tile[t].st = "calling"
         /\ lg' = IF lg.tile[t].attempt = lg.retryAttempts
                  THEN [lg EXCEPT !.tile[t].st = "failed"]
                  ELSE [lg EXCEPT !.tile[t].st = "backoff",
                                  !.tile[t].waited = (2 ^ lg.tile[t].attempt) * 1000]
    /\ UNCHANGED <<pvars, dctx, dpc, ov, fn>>

\* the timer fires: attempt++ and the next call is issued
LegacyBackoffElapsed ==
    /\ lg.st = "running"
    /\ \E t \in DOMAIN lg.tile :
         /\ lg.tile[t].st = "backoff"
         /\ lg' = [lg EXCEPT !.tile[t].st = "calling", !.tile[t].attempt = @ + 1]
    /\ UNCHANGED <<pvars, dctx, dpc, ov, fn>>

\* Promise.all of the batch resolves: its results are pushed; then the pause
\* before the next batch, or the sorted successes are returned
LegacyBatchSettled ==
    /\ lg.st = "running"
    /\ \A t \in legacyBatch(lg) : lg.tile[t].st \in {"ok", "failed"}
    /\ LET settledBatch == [k \in 1..Cardinality(legacyBatch(lg)) |->
                              [index |-> lg.i + k - 1, success |-> lg.tile[lg.i + k].st = "ok"]]
           results == lg.results \o settledBatch
       IN lg' = IF lg.i + lg.maxConcurrency < lg.n
                THEN [lg EXCEPT !.results = results, !.st = "pausing"]
                ELSE [lg EXCEPT !.results = results, !.st = "done", !.out = legacySorted(results)]
    /\ UNCHANGED <<pvars, dctx, dpc, ov, fn>>

\* setTimeout(r, 500) fires: i += maxConcurrency and the next batch is mapped
LegacyPauseElapsed ==
    /\ lg.st = "pausing"
    /\ lg' = legacyDispatch([lg EXCEPT !.i = @ + lg.maxConcurrency, !.pauses = Append(@, 500), !.st = "running"])
    /\ UNCHANGED <<pvars, dctx, dpc, ov, fn>>

NextLegacy ==
    \/ LegacyCallSucceeds
    \/ LegacyCallFails
    \/ LegacyBackoffElapsed
    \/ LegacyBatchSettled
    \/ LegacyPauseElapsed

SpecLegacy == InitLegacy /\ [][NextLegacy]_vars

----------------------------------------------------------------------------
(* SpecVerified: OCRVerifiedExtractionStage.process after the initial       *)
(* answer (part_006): the rows of the answer are validated and repaired     *)
(* from the OCR text in one step, the verification pass is a second step.   *)

\* rows the initial answer holds at most
MaxInitialRows == 2

\* strings the OCR text holds at most that ibanPattern matches
MaxOcrMatches == 2

\* rows the answer of the verification pass holds at most
MaxVerifiedRows == 1

mkRow(invoiceNumber, iban) ==
    [invoiceNumber |-> invoiceNumber, variableSymbol |-> "", iban |-> iban,
     amount |-> undefined, marks |-> {}, tileIndex |-> undefined,
     pageIndex |-> undefined, sliceIndex |-> undefined]

InitialRows ==
    {mkRow("f1", <<IbanA>>), mkRow("f1", <<IbanT>>), mkRow("F 1", <<IbanT>>),
     mkRow("f2", <<IbanX>>), mkRow("f2", undefined)}

OcrMatches == {IbanA, IbanS, IbanE, IbanB, IbanF, IbanC, IbanT}

VerifiedRows == {mkRow("f1", <<IbanA>>), mkRow("f2", <<IbanA>>), mkRow("f2", <<IbanT>>)}

SeqsUpTo(S, n) == UNION {[1..k -> S] : k \in 0..n}

InitVerified ==
    /\ options = [pipelineMode |-> "ocr-verified"]
    /\ request = [docType |-> "drawdown"]
    /\ env = [providerConfigured |-> TRUE, visionConfigured |-> TRUE]
    /\ stages = << >>
    /\ pc = "verified"
    /\ idx = 1
    /\ ctx = NewContext
    /\ ex = exIdle
    /\ hist = NewHist
    /\ response = NoResponse
    /\ dctx = NewData
    /\ dpc = "off"
    /\ lg = legacyIdle
    /\ \E items \in SeqsUpTo(InitialRows, MaxInitialRows), ocrText \in SeqsUpTo(OcrMatches, MaxOcrMatches) :
         ov = [ovIdle EXCEPT !.st = "initial", !.items = items, !.ocrText = ocrText]
    /\ fn = fnIdle

\* process from validateItems to the call of performVerificationPass
VerifiedValidateAndCorrect ==
    /\ ov.st = "initial"
    /\ LET v == validateItems(ov.items)
           c == IF Len(v.invalidItems) > 0 THEN correctIBANsFromOCR(v.invalidItems, ov.ocrText)
                ELSE [corrected |-> << >>, stillInvalid |-> v.invalidItems]
       IN ov' = [ov EXCEPT !.st = IF Len(c.stillInvalid) > 0 THEN "verifying" ELSE "done",
                           !.validItems = v.validItems,
                           !.invalidItems = v.invalidItems,
                           !.corrected = c.corrected,
                           !.remainingInvalidItems = c.stillInvalid,
                           !.requested = c.stillInvalid,
                           !.finalItems = v.validItems \o c.corrected]
    /\ UNCHANGED <<pvars, dctx, dpc, lg, fn>>

\* provider.extract of performVerificationPass returns rows; mergeResults
VerificationPassReturns ==
    /\ ov.st = "verifying"
    /\ \E answer \in SeqsUpTo(VerifiedRows, MaxVerifiedRows) :
         LET correctedItems == performVerificationPass(<<answer>>)
         IN ov' = [ov EXCEPT !.st = "done",
                             !.answer = answer,
                             !.correctedItems = correctedItems,
                             !.finalItems = mergeResults(@, correctedItems)]
    /\ UNCHANGED <<pvars, dctx, dpc, lg, fn>>

\* provider.extract of performVerificationPass throws; mergeResults
VerificationPassFails ==
    /\ ov.st = "verifying"
    /\ LET correctedItems == performVerificationPass(undefined)
       IN ov' = [ov EXCEPT !.st = "done",
                           !.correctedItems = correctedItems,
                           !.finalItems = mergeResults(@, correctedItems)]
    /\ UNCHANGED <<pvars, dctx, dpc, lg, fn>>

NextVerified ==
    \/ VerifiedValidateAndCorrect
    \/ VerificationPassReturns
    \/ VerificationPassFails

SpecVerified == InitVerified /\ [][NextVerified]_vars

----------------------------------------------------------------------------
(* Functions of the library applied on their own (SpecFn):                 *)
(* deduplicateRows on a row sequence, once and on its own value,           *)
(* aggregateResults on the results of several tiles, and the tiling of one *)
(* page by shouldTile and tileImage                                        *)

\* rows handed to deduplicateRows at most
MaxDedupRows == 3

\* results handed to aggregateResults at most
MaxResults == 2

DocTypes == {"drawdown", "invoice", "loanContract", "receipt"}

keyedRow(variableSymbol, invoiceNumber, iban) ==
    [mkRow(invoiceNumber, iban) EXCEPT !.variableSymbol = variableSymbol]

\* rows that share a key as written or after trimming, with IBANs that are
\* valid (A, E, F), invalid (T), close to one another (T, A, E) or far (F);
\* a row without key fields; rows of another key; a row that holds in
\* another key field what a row holds in its only key field
DedupRows ==
    {keyedRow("", "f1", <<IbanT>>), keyedRow("", "f1", <<IbanA>>), keyedRow("", "F1 ", <<IbanE>>),
     keyedRow("", "f1", <<IbanF>>), keyedRow("", "f1", undefined), keyedRow("", "", <<IbanT>>),
     keyedRow(" V1", "f1", <<IbanA>>), keyedRow("", "f2", <<IbanA>>),
     keyedRow("f1", "", <<IbanA>>)}

AggregatedRows == {keyedRow("", "f1", <<IbanT>>), keyedRow("", "f1", <<IbanA>>)}

\* the answers of the model for one tile: a scalar field that may be
\* missing, a total, and the rows under the array field of the doc-type
TileResults(docType) ==
    LET scalars == [currency : Optional({"EUR", "CZK"}), totalSum : {<<1010>>}]
    IN IF arrayField(docType) = undefined THEN scalars
       ELSE {scalar @@ (arrayField(docType)[1] :> <<rows>>) :
                scalar \in scalars, rows \in SeqsUpTo(AggregatedRows, MaxRows)}

\* page heights go up to MaxHeightSteps steps of a tenth of the configured
\* slice height
MaxHeightSteps == 30

\* heights on a step and one pixel above it
PageHeights ==
    {k * (tilingDefaults.sliceHeight[1] \div 10) + d : k \in 1..MaxHeightSteps, d \in {0, 1}}

\* the heights a request sets, none or all three
UserHeights ==
    {[k \in {} |-> undefined],
     [headerHeight |-> <<200>>, sliceHeight |-> <<900>>, overlap |-> <<100>>]}

\* shouldTile: metadata.height > sliceHeight * 1.5
shouldTile(height, sliceHeight) == 2 * height > 3 * sliceHeight

\* the while-loop of tileImage from currentY on: the slices as [top, height]
RECURSIVE sliceLoop(_, _, _, _)
sliceLoop(height, config, currentY, slices) ==
    IF currentY >= height THEN slices
    ELSE LET endY == Min(currentY + config.sliceHeight, height)
             sliceActualHeight == endY - currentY
         IN IF sliceActualHeight <= config.overlap /\ Len(slices) > 0 THEN slices
            ELSE sliceLoop(height, config, currentY + (config.sliceHeight - config.overlap),
                           Append(slices, [image |-> "slice", top |-> currentY,
                                           height |-> sliceActualHeight]))

\* tileImage on a page of the given height; header is null for a short page
tileImage(height, config) ==
    IF height <= config.headerHeight + config.sliceHeight
    THEN [header |-> undefined, slices |-> <<[image |-> "page", top |-> 0, height |-> height]>>]
    ELSE [header |-> <<[image |-> "header", top |-> 0, height |-> Min(config.headerHeight, height)]>>,
          slices |-> sliceLoop(height, config, config.headerHeight, << >>)]

\* slices that all carry the index 0
pageTilesUnnumbered(height, tilingConfig) ==
    IF shouldTile(height, tilingConfig.sliceHeight[1])
    THEN LET tiled == tileImage(height, [headerHeight |-> tilingConfig.headerHeight[1],
                                         sliceHeight |-> tilingConfig.sliceHeight[1],
                                         overlap |-> tilingConfig.overlap[1]])
         IN [s \in 1..Len(tiled.slices) |->
                [sliceIndex |-> 0, isTiled |-> TRUE,
                 images |-> IF tiled.header # undefined THEN <<tiled.header[1], tiled.slices[s]>>
                            ELSE <<tiled.slices[s]>>]]
    ELSE <<[sliceIndex |-> 0, isTiled |-> FALSE,
            images |-> <<[image |-> "page", top |-> 0, height |-> height]>>]>>

\* the body of the page loop of TilingStage.process: the images of the tiles
\* one page yields
pageTiles(height, tilingConfig) ==
    IF shouldTile(height, tilingConfig.sliceHeight[1])
    THEN LET tiled == tileImage(height, [headerHeight |-> tilingConfig.headerHeight[1],
                                         sliceHeight |-> tilingConfig.sliceHeight[1],
                                         overlap |-> tilingConfig.overlap[1]])
         IN [s \in 1..Len(tiled.slices) |->
                [sliceIndex |-> s - 1, isTiled |-> TRUE,
                 images |-> IF tiled.header # undefined THEN <<tiled.header[1], tiled.slices[s]>>
                            ELSE <<tiled.slices[s]>>]]
    ELSE <<[sliceIndex |-> 0, isTiled |-> FALSE,
            images |-> <<[image |-> "page", top |-> 0, height |-> height]>>]>>

\* DEFAULTS of the tiling service
DEFAULTS == [headerHeight |-> <<200>>, sliceHeight |-> <<900>>, overlap |-> <<100>>]

\* pages a document handed to TilingStage holds at most
MaxDocumentPages == 2

\* a short page and a page of 3000 px
DocumentHeights == {700, 3000}

\* the tiling keys of the options parseRequest builds: nothing set, tiling
\* switched on or off alone, tiling switched on with the three heights
TilingRequests ==
    {[enableTiling |-> e, sliceHeight |-> undefined, overlap |-> undefined, headerHeight |-> undefined] :
        e \in Optional(BOOLEAN)}
    \cup {[enableTiling |-> <<TRUE>>, sliceHeight |-> <<h>>, overlap |-> <<100>>, headerHeight |-> <<500>>] :
            h \in {500, 1000}}

\* shouldTile(imageBuffer, tilingConfig.sliceHeight), whose parameter
\* defaults to DEFAULTS.sliceHeight when the argument is undefined
needsTiling(height, tilingConfig) ==
    shouldTile(height, IF tilingConfig.sliceHeight = undefined THEN DEFAULTS.sliceHeight[1]
                       ELSE tilingConfig.sliceHeight[1])

\* the tile of a page that is not cut
wholePage(height) ==
    [sliceIndex |-> 0, isTiled |-> FALSE, images |-> <<[image |-> "page", top |-> 0, height |-> height]>>]

\* the page loop of TilingStage.process from pageIndex on; threw: tileImage
\* was given an undefined height and sharp rejected the NaN
RECURSIVE tilePages(_, _, _, _)
tilePages(heights, tilingConfig, pageIndex, tiles) ==
    IF pageIndex >= Len(heights) THEN [threw |-> FALSE, tiles |-> tiles]
    ELSE LET height == heights[pageIndex + 1]
         IN IF needsTiling(height, tilingConfig) /\ ~geometryDefined(tilingConfig)
            THEN [threw |-> TRUE, tiles |-> tiles]
            ELSE LET mine == IF needsTiling(height, tilingConfig) THEN pageTiles(height, tilingConfig)
                             ELSE <<wholePage(height)>>
                 IN tilePages(heights, tilingConfig, pageIndex + 1,
                              tiles \o [s \in 1..Len(mine) |->
                                          [pageIndex |-> pageIndex, sliceIndex |-> mine[s].sliceIndex,
                                           globalIndex |-> <<Len(tiles) + s - 1>>,
                                           isTiled |-> mine[s].isTiled, images |-> mine[s].images]])

\* TilingStage.process on the pages of the given heights
tilingStageProcess(heights, docType, userOptions) ==
    LET tilingConfig == getTilingConfig(docType, userOptions)
    IN IF ~TruthyBool(tilingConfig.enableTiling)
       THEN [threw |-> FALSE,
             tiles |-> [i \in 1..Len(heights) |->
                          [pageIndex |-> i - 1, sliceIndex |-> 0, globalIndex |-> undefined,
                           isTiled |-> FALSE, images |-> wholePage(heights[i]).images]]]
       ELSE tilePages(heights, tilingConfig, 0, << >>)

\* the model calls extractWithOpenAI issues for the tiles when no call fails:
\* one for a single tile, one per tile of every batch or of the sequence
extractionCalls(tiles) == Len(tiles)

\* JavaScript objects with identity: heap[ref] is the object a reference
\* points at, a schema node or the object held under its key "properties"
\* (key |-> reference of the property's schema); 0 is no reference
schemaNode(type, properties, items) ==
    [type |-> type, additionalProperties |-> undefined, required |-> undefined,
     properties |-> properties, items |-> items]

\* { ...object }: a new object with the same values under the same keys
shallowCopy(heap, ref) == [heap |-> Append(heap, heap[ref]), ref |-> Len(heap) + 1]

\* enforceStrictSchema(schema): the heap after the call and the reference returned
RECURSIVE enforceStrictSchema(_, _)
enforceStrictSchema(heap, schema) ==
    IF schema = 0 THEN [heap |-> heap, ref |-> 0]
    ELSE LET new == shallowCopy(heap, schema)
             node == heap[schema]
             \* for (const key in newSchema.properties)
             \*     newSchema.properties[key] = enforceStrictSchema(newSchema.properties[key])
             RECURSIVE forKeys(_, _, _)
             forKeys(h, props, keys) ==
                 IF keys = {} THEN h
                 ELSE LET key == CHOOSE k \in keys : TRUE
                          r == enforceStrictSchema(h, h[props][key])
                      IN forKeys([r.heap EXCEPT ![props][key] = r.ref], props, keys \ {key})
         IN IF node.type = "object"
            THEN LET keys == IF node.properties = 0 THEN {} ELSE DOMAIN heap[node.properties]
                     marked == [new.heap EXCEPT ![new.ref].additionalProperties = <<FALSE>>,
                                                ![new.ref].required = <<keys>>]
                 IN IF node.properties = 0 THEN [heap |-> marked, ref |-> new.ref]
                    ELSE [heap |-> forKeys(marked, node.properties, keys), ref |-> new.ref]
            ELSE IF node.type = "array" /\ node.items # 0
            THEN LET r == enforceStrictSchema(new.heap, node.items)
                 IN [heap |-> [r.heap EXCEPT ![new.ref].items = r.ref], ref |-> new.ref]
            ELSE new

\* JSON.stringify(schema): the tree of values reached from the reference
RECURSIVE stringify(_, _)
stringify(heap, schema) ==
    LET node == heap[schema]
    IN [type |-> node.type, additionalProperties |-> node.additionalProperties,
        required |-> node.required,
        properties |-> IF node.properties = 0 THEN undefined
                       ELSE <<[key \in DOMAIN heap[node.properties] |->
                                  stringify(heap, heap[node.properties][key])]>>,
        items |-> IF node.items = 0 THEN undefined ELSE <<stringify(heap, node.items)>>]

\* the schemas of the registry as parsed for a request, the root at reference
\* 1: a flat object; an object with a nested object; the drawdown shape, an
\* object holding an array of objects; an array of objects
RequestSchemas ==
    {<<schemaNode("object", 2, 0), [invoiceNumber |-> 3], schemaNode("string", 0, 0)>>,
     <<schemaNode("object", 2, 0), [supplier |-> 3], schemaNode("object", 4, 0),
       [iban |-> 5], schemaNode("string", 0, 0)>>,
     <<schemaNode("object", 2, 0), [totalSum |-> 3, drawdowns |-> 4], schemaNode("number", 0, 0),
       schemaNode("array", 0, 5), schemaNode("object", 6, 0), [iban |-> 7],
       schemaNode("string", 0, 0)>>,
     <<schemaNode("array", 0, 2), schemaNode("object", 3, 0), [iban |-> 4],
       schemaNode("string", 0, 0)>>}

\* the tiles of a parallel extraction, and the maxConcurrency parseNumber
\* hands on: undefined for an omitted field, else the integer parseInt reads
MaxBatchedTiles == 4

ConcurrencyOptions == Optional((0 - 2)..3)

\* Array.prototype.slice(begin, end) on the positions counted from 0
slice(items, begin, end) ==
    LET len == Len(items)
        from == IF begin < 0 THEN (IF len + begin < 0 THEN 0 ELSE len + begin) ELSE Min(begin, len)
        to == IF end < 0 THEN (IF len + end < 0 THEN 0 ELSE len + end) ELSE Min(end, len)
    IN IF from >= to THEN << >> ELSE SubSeq(items, from + 1, to)

\* the iterations of the loop of createBatches that are followed
LoopCap == MaxBatchedTiles + 1

\* the rows of a result before validation, and the rows the model returns
\* to a re-verification
MaxValidatedItems == 2

ValidatedItems ==
    LET menu == {mkRow("f1", <<IbanA>>), mkRow("F1 ", <<IbanT>>), mkRow("f2", <<IbanT>>),
                 mkRow("f1", undefined)}
    IN UNION {[1..k -> menu] : k \in 1..MaxValidatedItems}

RepairAnswers ==
    {<< >>} \cup {<<row>> : row \in {mkRow("f1", <<IbanE>>), mkRow("f2", <<IbanA>>),
                                     mkRow("f1", <<IbanT>>)}}

InitFn ==
    /\ options = [pipelineMode |-> "default"]
    /\ request = [docType |-> "drawdown"]
    /\ env = [providerConfigured |-> TRUE, visionConfigured |-> TRUE]
    /\ stages = << >>
    /\ pc = "fn"
    /\ idx = 1
    /\ ctx = NewContext
    /\ ex = exIdle
    /\ hist = NewHist
    /\ response = NoResponse
    /\ dctx = NewData
    /\ dpc = "off"
    /\ lg = legacyIdle
    /\ ov = ovIdle
    /\ \/ \E docType \in DocTypes, rows \in SeqsUpTo(DedupRows, MaxDedupRows) :
            fn = [st |-> "rows", docType |-> docType, rows |-> rows]
       \/ \E docType \in {"drawdown", "invoice", "loanContract"} :
            \E results \in SeqsUpTo(TileResults(docType), MaxResults) :
               fn = [st |-> "results", docType |-> docType, results |-> results]
       \/ \E docType \in {"drawdown", "invoice"}, userOptions \in TilingRequests :
            \E heights \in SeqsUpTo(DocumentHeights, MaxDocumentPages) \ {<< >>} :
               fn = [st |-> "document", docType |-> docType, userOptions |-> userOptions,
                     heights |-> heights]
       \/ \E n \in 2..MaxBatchedTiles, maxConcurrency \in ConcurrencyOptions, docType \in DocTypes :
            fn = [st |-> "batching", items |-> [t \in 1..n |-> t],
                  batchSize |-> maxConcurrencyOf(getTilingConfig(docType,
                                                    [maxConcurrency |-> maxConcurrency])),
                  i |-> 0, batches |-> << >>]
       \/ \E items \in ValidatedItems :
            fn = [st |-> "items", items |-> items, repaired |-> << >>, validated |-> << >>]
       \/ \E heap \in RequestSchemas, promptFirst \in BOOLEAN :
            fn = [st |-> "schema", heap |-> heap, schema |-> 1, original |-> stringify(heap, 1),
                  promptFirst |-> promptFirst, strictSchema |-> 0, prompts |-> << >>]
       \/ \E height \in PageHeights, userOptions \in UserHeights :
            fn = [st |-> "page", height |-> height,
                  tilingConfig |-> getTilingConfig("drawdown", userOptions)]

\* deduplicateRows(rows, docType)
DeduplicateRows ==
    /\ fn.st = "rows"
    /\ fn' = [st |-> "deduplicated", docType |-> fn.docType, rows |-> fn.rows,
              once |-> deduplicateRows(fn.rows, fn.docType)]
    /\ UNCHANGED <<pvars, dctx, dpc, lg, ov>>

\* deduplicateRows applied to its own value
DeduplicateRowsAgain ==
    /\ fn.st = "deduplicated"
    /\ fn' = [st |-> "deduplicatedTwice", docType |-> fn.docType, rows |-> fn.rows, once |-> fn.once,
              twice |-> deduplicateRows(fn.once, fn.docType)]
    /\ UNCHANGED <<pvars, dctx, dpc, lg, ov>>

\* aggregateResults(results, docType)
AggregateResults ==
    /\ fn.st = "results"
    /\ fn' = [st |-> "aggregated", docType |-> fn.docType, results |-> fn.results,
              result |-> aggregateResults(fn.results, fn.docType)]
    /\ UNCHANGED <<pvars, dctx, dpc, lg, ov>>

\* TilingStage.process on one page, tiling enabled
TilePage ==
    /\ fn.st = "page"
    /\ fn' = [st |-> "tiled", height |-> fn.height, tilingConfig |-> fn.tilingConfig,
              tiles |-> pageTiles(fn.height, fn.tilingConfig)]
    /\ UNCHANGED <<pvars, dctx, dpc, lg, ov>>

\* TilingStage.process on a document, then the calls of the extraction
TileDocument ==
    /\ fn.st = "document"
    /\ LET built == tilingStageProcess(fn.heights, fn.docType, fn.userOptions)
       IN fn' = [st |-> "tilesBuilt", docType |-> fn.docType, userOptions |-> fn.userOptions,
                 heights |-> fn.heights, threw |-> built.threw, tiles |-> built.tiles,
                 calls |-> IF built.threw THEN 0 ELSE extractionCalls(built.tiles)]
    /\ UNCHANGED <<pvars, dctx, dpc, lg, ov>>

\* a stage derives the strict schema: enforceStrictSchema({ ...context.schema });
\* ExtractionStage has built its instructions from context.schema before
BuildInstructionsFirst ==
    /\ fn.st = "schema" /\ fn.promptFirst /\ fn.prompts = << >>
    /\ fn' = [fn EXCEPT !.prompts = Append(@, stringify(fn.heap, fn.schema))]
    /\ UNCHANGED <<pvars, dctx, dpc, lg, ov>>

DeriveStrictSchema ==
    /\ fn.st = "schema"
    /\ fn.promptFirst => fn.prompts # << >>
    /\ LET copy == shallowCopy(fn.heap, fn.schema)
           strict == enforceStrictSchema(copy.heap, copy.ref)
       IN fn' = [fn EXCEPT !.st = "strictDerived", !.heap = strict.heap, !.strictSchema = strict.ref]
    /\ UNCHANGED <<pvars, dctx, dpc, lg, ov>>

\* JSON.stringify(context.schema) into a prompt after the derivation: the
\* instructions of the OCR stages, the prompt of a re-verification
EmbedSchemaInPrompt ==
    /\ fn.st = "strictDerived"
    /\ fn' = [fn EXCEPT !.st = "prompted", !.prompts = Append(@, stringify(fn.heap, fn.schema))]
    /\ UNCHANGED <<pvars, dctx, dpc, lg, ov>>

\* ValidationStage.runValidator on the rows of a one-page result: the
\* repairs are applied, then the rows still invalid are flagged
RunValidator ==
    /\ fn.st = "items"
    /\ \E answers \in [repairCalls(fn.items, plainTiles(1), TRUE) -> RepairAnswers] :
         fn' = [fn EXCEPT !.st = "validated",
                          !.repaired = IF findInvalid(fn.items) = << >> THEN fn.items
                                       ELSE applyRepairs(fn.items,
                                                         repair(findInvalid(fn.items), plainTiles(1),
                                                                TRUE, answers)),
                          !.validated = runValidator(fn.items, plainTiles(1), TRUE, answers)]
    /\ UNCHANGED <<pvars, dctx, dpc, lg, ov>>

\* createBatches, one iteration of its loop:
\* batches.push(items.slice(i, i + batchSize)); i += batchSize
CreateBatchesStep ==
    /\ fn.st = "batching"
    /\ fn.i < Len(fn.items)
    /\ Len(fn.batches) < LoopCap
    /\ fn' = [fn EXCEPT !.batches = Append(@, slice(fn.items, fn.i, fn.i + fn.batchSize)),
                        !.i = @ + fn.batchSize]
    /\ UNCHANGED <<pvars, dctx, dpc, lg, ov>>

\* createBatches leaves its loop and returns the batches
CreateBatchesReturns ==
    /\ fn.st = "batching"
    /\ fn.i >= Len(fn.items)
    /\ fn' = [fn EXCEPT !.st = "batched"]
    /\ UNCHANGED <<pvars, dctx, dpc, lg, ov>>

NextFn ==
    \/ DeduplicateRows
    \/ DeduplicateRowsAgain
    \/ AggregateResults
    \/ TilePage
    \/ TileDocument
    \/ BuildInstructionsFirst
    \/ DeriveStrictSchema
    \/ EmbedSchemaInPrompt
    \/ RunValidator
    \/ CreateBatchesStep
    \/ CreateBatchesReturns

SpecFn == InitFn /\ [][NextFn]_vars

----------------------------------------------------------------------------
(* Properties of the pipeline run (Spec) *)

Last(q) == q[Len(q)]

Count(q, src) == Cardinality({i \in 1..Len(q) : q[i].src = src})

Completed(name) == name \in Range(ctx.stagesCompleted)

Invoked(name) == name \in Range(hist.invoked)

\* the order of section 4.11; the extraction stages of the four modes share a place
rank(name) ==
    CASE name = "PreprocessingStage" -> 1
      [] name = "AzureOCRStage" -> 2
      [] name = "TilingStage" -> 3
      [] name \in {"ExtractionStage", "OCREnhancedExtractionStage", "OCROnlyExtractionStage",
                   "OCRVerifiedExtractionStage"} -> 4
      [] name = "AggregationStage" -> 5
      [] name = "ValidationStage" -> 6
      [] name = "CleanupStage" -> 7

\* C1: once context.error is set, no further process is invoked and the error is
\* not replaced; the response of such a run is the failure carrying the first error.
C1_ErrorStopsPipeline ==
    [][/\ ctx.error # null => (hist'.invoked = hist.invoked /\ ctx'.error = ctx.error)
       /\ (pc' = "responded" /\ hist'.firstError # null)
             => (response'.status = 500 /\ response'.error = hist'.firstError)]_vars

C1_Witness ==
    /\ pc = "responded"
    /\ hist.firstError # null
    /\ response.status = 500
    /\ idx <= Len(stages)
    /\ Len(hist.invoked) >= 2

\* C2: when a process throws, context.error is set, context.errors ends with an
\* entry for the throwing stage, and that stage is the last one invoked.
C2_ThrowIsCaught ==
    hist.thrown # << >> =>
        /\ Len(hist.thrown) = 1
        /\ ctx.error # null
        /\ ctx.errors # << >>
        /\ Last(ctx.errors).stage = hist.thrown[1]
        /\ Last(hist.invoked) = hist.thrown[1]
        /\ pc \in {"returned", "responded"}

C2_Witness ==
    /\ pc = "responded"
    /\ hist.thrown = <<"ExtractionStage">>
    /\ response.details # << >>

\* C3: the invoked stages follow the linear order without repetition, and while a
\* process has not returned it is the last one invoked.
C3_LinearOrder ==
    /\ \A i, j \in 1..Len(hist.invoked) : i < j => rank(hist.invoked[i]) < rank(hist.invoked[j])
    /\ pc = "extracting" => Last(hist.invoked) = "ExtractionStage"

C3_Witness ==
    /\ pc = "responded"
    /\ hist.invoked = <<"PreprocessingStage", "AzureOCRStage", "TilingStage", "ExtractionStage",
                        "AggregationStage", "ValidationStage", "CleanupStage">>

MultiTileRun ==
    /\ Invoked("ExtractionStage")
    /\ env.providerConfigured
    /\ isOpenAIProvider(options)
    /\ Len(ctx.tiles) > 1

HasTileWarning(t) == \E i \in 1..Len(ctx.warnings) : ctx.warnings[i].stage = "ExtractionStage" /\ ctx.warnings[i].tile = t

Dropped(t) ==
    IF pc = "extracting"
    THEN ex.tile[t].st = "null"
    ELSE t \notin hist.succeeded

\* C6: in a multi-tile extraction a tile whose attempts all failed has a warning
\* and no result, context.error stays unset, and when the stage has returned
\* every tile was called and every tile that succeeded has its result.
C6_TileFailureIsNonFatal ==
    MultiTileRun =>
        /\ ctx.error = null
        /\ \A t \in 1..Len(ctx.tiles) :
             /\ Dropped(t) => (HasTileWarning(t) /\ Count(ctx.extractions, t) = 0)
             /\ Completed("ExtractionStage") =>
                   /\ hist.calls[t] >= 1
                   /\ t \in hist.succeeded => Count(ctx.extractions, t) = 1

C6_Witness ==
    /\ MultiTileRun
    /\ pc = "responded"
    /\ response.status = 200
    /\ \E t, u \in 1..Len(ctx.tiles) :
         /\ t < u
         /\ t \notin hist.succeeded
         /\ u \in hist.succeeded
         /\ Count(ctx.extractions, u) = 1

\* the pages were not cut into slices: every tile is a whole page
NonTiledRequest == \A t \in 1..Len(ctx.tiles) : ~ctx.tiles[t].isTiled

AllExtractionCallsFailed ==
    /\ Invoked("ExtractionStage")
    /\ env.providerConfigured
    /\ isOpenAIProvider(options)
    /\ Len(ctx.tiles) >= 1
    /\ hist.succeeded = {}

\* C7: when every extraction call of a single-image or non-tiled request has
\* failed, the run answers with the failure: context.error is set and the
\* response is not a success.
C7_NonTiledFailureIsFatal ==
    (pc = "responded" /\ NonTiledRequest /\ AllExtractionCallsFailed) =>
        (ctx.error # null /\ response.status # 200)

ParallelRun ==
    /\ MultiTileRun
    /\ TruthyBool(options.parallelMode)

\* C8: in parallel mode a tile is called at most retryAttempts + 1 times and not
\* again once a call of it has succeeded.
C8_BoundedAttempts ==
    [][ParallelRun' =>
         \A t \in DOMAIN hist'.calls :
            /\ hist'.calls[t] <= tilingDefaults.retryAttempts[1] + 1
            /\ (ParallelRun /\ t \in hist.succeeded) => hist'.calls[t] = hist.calls[t]]_vars

C8_Witness ==
    /\ ParallelRun
    /\ Completed("ExtractionStage")
    /\ \E t, u \in 1..Len(ctx.tiles) :
         /\ hist.calls[t] = tilingDefaults.retryAttempts[1] + 1
         /\ t \notin hist.succeeded
         /\ hist.calls[u] = 2
         /\ u \in hist.succeeded

\* C9: context.extractions holds at most one result per tile, and exactly one for
\* a tile whose call succeeded, whatever the number of failed attempts before it.
C9_OneContributionPerTile ==
    \A t \in 1..Len(ctx.tiles) :
        /\ Count(ctx.extractions, t) <= 1
        /\ (Completed("ExtractionStage") /\ Invoked("ExtractionStage") /\ isOpenAIProvider(options))
              => (Count(ctx.extractions, t) = 1) = (t \in hist.succeeded)

C9_Witness ==
    /\ ParallelRun
    /\ Completed("ExtractionStage")
    /\ \E t \in 1..Len(ctx.tiles) :
         /\ hist.calls[t] = 3
         /\ t \in hist.succeeded
         /\ Count(ctx.extractions, t) = 1

effectiveMaxConcurrency ==
    IF options.maxConcurrency # undefined /\ options.maxConcurrency[1] # 0
    THEN options.maxConcurrency[1]
    ELSE 5

\* C10: every batch has at most maxConcurrency tiles, and a tile of a batch is
\* called only when every tile of the batch before it has succeeded or been dropped.
C10_BatchesJoin ==
    (pc = "extracting" /\ ex.mode = "parallel") =>
        /\ \A b \in 1..Len(ex.batches) : Len(ex.batches[b]) <= effectiveMaxConcurrency
        /\ \A b \in 1..(Len(ex.batches) - 1) :
             \A t \in Range(ex.batches[b + 1]) :
                hist.calls[t] > 0 => \A u \in Range(ex.batches[b]) : ex.tile[u].st \in {"ok", "null"}

C10_Witness ==
    /\ pc = "extracting" /\ ex.mode = "parallel"
    /\ Len(ex.batches) >= 2
    /\ ex.batchIndex = 1
    /\ Len(ex.batches[1]) = 2
    /\ \E t \in Range(ex.batches[2]) : ex.tile[t].st = "calling"
    /\ \E u \in Range(ex.batches[1]) : ex.tile[u].st = "null"

fanOutReturns(name) == {k \in 1..Len(hist.joined) : hist.joined[k].stage = name}

\* C11: when the parallel tile extraction or the per-image OCR returns to the
\* pipeline, none of the calls it dispatched is still in flight.
C11_FanOutsJoin == \A k \in 1..Len(hist.joined) : hist.joined[k].pending = 0

C11_Witness ==
    /\ pc = "responded"
    /\ \E k \in fanOutReturns("AzureOCRStage") : hist.joined[k].dispatched >= 2
    /\ \E k \in fanOutReturns("ExtractionStage") : hist.joined[k].dispatched >= 2

\* C12: in parallel mode an attempt that is the k-th retry of a tile (k >= 1)
\* was issued after a wait of 2^k seconds: 2000 ms for the first retry,
\* 4000 ms for the second; in ExtractionStage.extractParallel and in
\* processParallelMode.
C12_RetryWaitsTwoToTheK ==
    /\ ex.mode = "parallel" =>
          \A t \in DOMAIN ex.tile :
             (ex.tile[t].st = "calling" /\ ex.tile[t].attempt >= 1)
                => ex.tile[t].waited = (2 ^ ex.tile[t].attempt) * 1000
    /\ \A t \in DOMAIN lg.tile :
          (lg.tile[t].st = "calling" /\ lg.tile[t].attempt >= 1)
             => lg.tile[t].waited = (2 ^ lg.tile[t].attempt) * 1000

\* C13: in parallel extraction every batch after the first was started after
\* a pause of 500 ms that followed the join of the batch before it; in
\* ExtractionStage.extractParallel and in processParallelMode.
C13_PauseBetweenBatches ==
    /\ ex.mode = "parallel" =>
          /\ Len(ex.pauses) = ex.batchIndex
          /\ \A b \in 1..Len(ex.pauses) : ex.pauses[b] = 500
    /\ \A b \in 1..Len(lg.pauses) : lg.pauses[b] = 500

TagOrdered(tags) ==
    \A i, j \in 1..Len(tags) :
       (i < j /\ tags[i] # undefined /\ tags[j] # undefined) => tags[i][1] <= tags[j][1]

\* C14: after a parallel extraction, however the calls completed or were
\* retried, the array aggregation concatenates from the extraction results has
\* every row tagged _tileIndex = k before every row tagged with a greater index.
C14_TileOrderPreserved ==
    (ParallelRun /\ Completed("ExtractionStage")) =>
        \A cnt \in [1..Len(ctx.extractions) -> {1, 2}] :
           TagOrdered(concatTags(ctx.extractions, cnt, 1))

C14_Witness ==
    /\ pc = "responded"
    /\ ParallelRun
    /\ effectiveMaxConcurrency >= 2
    /\ Len(ctx.extractions) >= 2
    /\ ctx.extractions[1].tileIndex # undefined /\ ctx.extractions[2].tileIndex # undefined
    /\ ctx.extractions[1].tileIndex[1] < ctx.extractions[2].tileIndex[1]
    /\ hist.calls[ctx.extractions[1].src] >= 2
    /\ hist.calls[ctx.extractions[2].src] = 1

----------------------------------------------------------------------------
(* Properties of the rows (SpecData) *)

Succeeded == dpc = "done" /\ dctx.response.status = 200

\* the keys of a row that begin with an underscore
underscoreKeys(row) == row.marks

\* C4: a response that reports success holds no key beginning with an
\* underscore, at the top level or in a row, whichever markers the stages
\* attached to the rows.  Stated for the runs without DEBUG_VERBOSE, in which
\* POST itself adds no _meta key.
C4_NoUnderscoreKeys ==
    (Succeeded /\ ~dctx.response.meta /\ dctx.response.body[1].drawdowns # undefined) =>
        \A i \in 1..Len(dctx.response.body[1].drawdowns[1]) :
            underscoreKeys(dctx.response.body[1].drawdowns[1][i]) = {}

\* C5: in every successful drawdown run the totalSum of the final result is
\* the sum of the amounts of its drawdowns rounded to two decimals, a missing
\* amount counting as zero, for one extraction result as for many.
C5_TotalSumIsRoundedSum ==
    (Succeeded /\ request.docType = "drawdown" /\ dctx.response.body[1].drawdowns # undefined) =>
        dctx.response.body[1].totalSum = <<round2(sumAmounts(dctx.response.body[1].drawdowns[1]))>>

rowsOf(data) == IF data.drawdowns = undefined THEN {} ELSE Range(data.drawdowns[1])

\* the rows the context holds: in the extraction results and in the result
rowsInContext ==
    UNION {rowsOf(dctx.extractions[k].data) : k \in 1..Len(dctx.extractions)}
       \cup (IF dctx.result = undefined THEN {} ELSE rowsOf(dctx.result[1]))

\* C15: a row that owns the key _tileIndex holds under it the globalIndex of a
\* tile of context.tiles, with tiling enabled and with tiling disabled.
C15_TileIndexReferencesTile ==
    \A row \in rowsInContext :
       "_tileIndex" \in row.marks =>
          \E t \in 1..Len(dctx.tiles) :
             /\ dctx.tiles[t].globalIndex # undefined
             /\ row.tileIndex = dctx.tiles[t].globalIndex

C17_InvalidIffAnnotated ==
    (Succeeded /\ request.docType = "drawdown" /\ dctx.response.body[1].drawdowns # undefined) =>
        \A i \in 1..Len(dctx.response.body[1].drawdowns[1]) :
           LET row == dctx.response.body[1].drawdowns[1][i]
           IN ~validateIBAN(row.iban) <=> "_validationIssue" \in row.marks

----------------------------------------------------------------------------
(* Properties of the ocr-verified repair (SpecVerified) *)

invoiceNumbersOf(rows) == {normalizeInvoiceNumber(rows[i].invoiceNumber) : i \in 1..Len(rows)}

\* C18: a row that the ocr-verified stage accepts from the verification pass
\* has an invoiceNumber that was among the rows sent for verification, and
\* an IBAN that passes MOD-97
C18_AcceptedRowWasRequested ==
    \A i \in 1..Len(ov.correctedItems) :
        /\ normalizeInvoiceNumber(ov.correctedItems[i].invoiceNumber) \in invoiceNumbersOf(ov.requested)
        /\ validateIBAN(ov.correctedItems[i].iban)

\* the OCR candidates that may replace the IBAN str of a row: they pass
\* MOD-97, start with the two characters str starts with, and no such
\* candidate is nearer to str; none when the nearest is more than 3 away
eligibleCandidates(str, ocrText) ==
    LET candidates == {c \in {normalizedIban(ocrText[i]) : i \in 1..Len(ocrText)} :
                          /\ validateIBAN(<<c>>)
                          /\ SubSeq(chars[c], 1, 2) = SubSeq(chars[str], 1, 2)}
    IN {c \in candidates :
          /\ levenshteinDistance(str, c) <= 3
          /\ \A other \in candidates : levenshteinDistance(str, c) <= levenshteinDistance(str, other)}

\* C19: in the ocr-verified branch every row repaired from the OCR text is an
\* invalid row whose IBAN was replaced by a candidate that passes MOD-97, has
\* the row's country code and is nearest to the row's IBAN, at distance 3 at
\* most, and it is marked _ocrCorrected; every other invalid row, among them
\* each row without such a candidate, is kept as it was
C19_RepairedFromNearestCandidate ==
    ov.st # "initial" =>
        /\ Len(ov.corrected) + Len(ov.remainingInvalidItems) = Len(ov.invalidItems)
        /\ \A i \in 1..Len(ov.corrected) :
              LET row == ov.corrected[i]
              IN /\ "_ocrCorrected" \in row.marks
                 /\ \E k \in 1..Len(ov.invalidItems) :
                       LET item == ov.invalidItems[k]
                       IN /\ item.iban # undefined
                          /\ row = [item EXCEPT !.iban = row.iban, !.marks = @ \cup {"_ocrCorrected"}]
                          /\ row.iban # undefined
                          /\ row.iban[1] \in eligibleCandidates(item.iban[1], ov.ocrText)
        /\ \A i \in 1..Len(ov.remainingInvalidItems) :
              ov.remainingInvalidItems[i] \in Range(ov.invalidItems)
        /\ \A k \in 1..Len(ov.invalidItems) :
              LET item == ov.invalidItems[k]
              IN (item.iban = undefined \/ eligibleCandidates(item.iban[1], ov.ocrText) = {})
                    => item \in Range(ov.remainingInvalidItems)

\* an invalid row was repaired with the nearer of two candidates of its
\* country, which is the second in the text and printed with spaces, and
\* another invalid row was kept
C19_Witness ==
    /\ ov.st # "initial"
    /\ ov.ocrText = <<IbanB, IbanS>>
    /\ \E i \in 1..Len(ov.corrected) :
          /\ ov.corrected[i].iban = <<IbanA>>
          /\ "_ocrCorrected" \in ov.corrected[i].marks
    /\ Len(ov.remainingInvalidItems) = 1

\* C20: the output of the ocr-verified stage starts with the rows that were
\* valid in the initial pass, every row after them is a row repaired from
\* the OCR text or by the verification pass, and none of these has the
\* normalised invoiceNumber of a row that was valid in the initial pass
C20_NoRepairedDuplicateOfValid ==
    ov.st = "done" =>
        /\ Len(ov.finalItems) >= Len(ov.validItems)
        /\ SubSeq(ov.finalItems, 1, Len(ov.validItems)) = ov.validItems
        /\ \A i \in (Len(ov.validItems) + 1)..Len(ov.finalItems) :
              /\ ov.finalItems[i] \in Range(ov.corrected) \cup Range(ov.correctedItems)
              /\ normalizeInvoiceNumber(ov.finalItems[i].invoiceNumber) \notin invoiceNumbersOf(ov.validItems)

----------------------------------------------------------------------------
(* Properties of the error handling (Spec) *)

ocrDependentStages == {"OCREnhancedExtractionStage", "OCROnlyExtractionStage", "OCRVerifiedExtractionStage"}

warningsOf(c, stage) == {k \in 1..Len(c.warnings) : c.warnings[k].stage = stage}

\* the OCR stage is asked for and the collaborator is absent
ocrUnavailable == TruthyBool(options.useAzureOCR) /\ ~env.visionConfigured

\* the step in which the OCR stage is left: skipped, or process returns
leavesOcrStage ==
    /\ idx <= Len(stages) /\ stages[idx] = "AzureOCRStage"
    /\ idx' = idx + 1

someOcrCallFailed == pc = "ocr" /\ \E i \in DOMAIN ex.tile : ex.tile[i].st = "null"

\* C21: leaving the OCR stage never sets context.error; when the collaborator
\* is absent or an OCR call failed, the step adds a warning of the OCR stage;
\* and a stage that needs the OCR text is invoked only when the text is there.
C21_OcrFailureIsWarning ==
    [][/\ leavesOcrStage =>
            /\ ctx'.error = ctx.error
            /\ (ocrUnavailable \/ someOcrCallFailed)
                  => warningsOf(ctx', "AzureOCRStage") # warningsOf(ctx, "AzureOCRStage")
       /\ \A name \in ocrDependentStages :
             (hist'.invoked # hist.invoked /\ Last(hist'.invoked) = name) => ctx.ocrText]_vars

\* C22: a run in ocr-enhanced mode without the OCR collaborator, once the
\* pages are there, invokes neither the OCR stage nor the OCR-enhanced
\* extraction and is answered with an error of status 400, not with a success.
C22_UnconfiguredOcrIsBadRequest ==
    (/\ pc = "responded"
     /\ options.pipelineMode = "ocr-enhanced"
     /\ ~env.visionConfigured
     /\ Completed("PreprocessingStage")) =>
        /\ ~Invoked("AzureOCRStage")
        /\ ~Invoked("OCREnhancedExtractionStage")
        /\ response.status = 400
        /\ response.error # null

singleCallStages == {"ExtractionStage", "OCROnlyExtractionStage"}

\* the step in which extractWithGemini, or the process of the OCR-only stage, returns
geminiReturns == pc = "extracting" /\ ex.mode = "gemini" /\ pc' # "extracting"

ocrOnlyReturns == AtStage /\ stages[idx] = "OCROnlyExtractionStage" /\ hist'.invoked # hist.invoked

\* C23: when the native-PDF (Gemini) branch or the OCR-only stage returns
\* without an extraction, its one model call having failed, context.error is
\* set by that step; from then on no process is invoked and the response is
\* the failure carrying that error.
C23_SingleCallFailureIsFatal ==
    [][/\ ((geminiReturns \/ ocrOnlyReturns) /\ ctx'.extractions = << >>)
             => (ctx.error = null /\ ctx'.error # null)
       /\ (ctx.error # null /\ Last(hist.invoked) \in singleCallStages)
             => /\ hist'.invoked = hist.invoked
                /\ ctx'.result = null
                /\ pc' = "responded" => (response'.status = 500 /\ response'.error = ctx.error)]_vars

C23_Witness ==
    /\ pc = "responded"
    /\ response.status = 500
    /\ ctx.error = "OCR-only extraction failed"
    /\ Last(hist.invoked) = "OCROnlyExtractionStage"
    /\ ctx.ocrText
    /\ idx <= Len(stages)

\* C24: at the end of a run in which context.error is set, context.errors
\* holds an entry of the stage that set it, and the failure response carries
\* the error string together with that list.
C24_ErrorsHoldTheFatalError ==
    (pc \in {"returned", "responded"} /\ ctx.error # null) =>
        /\ \E k \in 1..Len(ctx.errors) : ctx.errors[k].stage = Last(hist.invoked)
        /\ pc = "responded" => (response.error = ctx.error /\ response.details = ctx.errors)

----------------------------------------------------------------------------
(* Properties of deduplicateRows and aggregateResults (SpecFn) *)

\* the composite key of a row, undefined for a row without key parts
keyOf(row, docType) ==
    IF keyParts(row, docType) = << >> THEN undefined ELSE <<join(keyParts(row, docType))>>

\* the positions at which a key is seen for the first time, or a row has no key
firstSeenAt(rows, docType) ==
    {i \in 1..Len(rows) :
        \/ keyOf(rows[i], docType) = undefined
        \/ \A j \in 1..(i - 1) : keyOf(rows[j], docType) # keyOf(rows[i], docType)}

\* the later rows that the drawdown exception lets replace rows[i]
replacements(rows, i, docType) ==
    {j \in (i + 1)..Len(rows) :
        /\ docType = "drawdown"
        /\ keyOf(rows[j], docType) = keyOf(rows[i], docType)
        /\ rows[j].iban # undefined /\ rows[i].iban # undefined
        /\ similarIbans(rows[j].iban, rows[i].iban)
        /\ validateIBAN(rows[j].iban) /\ ~validateIBAN(rows[i].iban)}

Deduplicated == fn.st \in {"deduplicated", "deduplicatedTwice"}

\* C25: the deduplicated sequence holds no two rows of one composite key; it
\* holds one row per first-seen key and per row without key, in the order of
\* these first positions in the input; and the row of a key is its first
\* occurrence, or for drawdown a later row with a valid IBAN close to the
\* invalid IBAN of the first occurrence.
C25_OneRowPerKeyInFirstSeenOrder ==
    Deduplicated =>
        LET rows == fn.rows
            out == fn.once
            first == firstSeenAt(rows, fn.docType)
        IN /\ \A i, j \in 1..Len(out) :
                (i < j /\ keyOf(out[i], fn.docType) # undefined)
                   => keyOf(out[i], fn.docType) # keyOf(out[j], fn.docType)
           /\ Len(out) = Cardinality(first)
           /\ \A i \in first :
                LET k == Cardinality({j \in first : j <= i})
                IN /\ keyOf(out[k], fn.docType) = keyOf(rows[i], fn.docType)
                   /\ \/ out[k] = rows[i]
                      \/ \E j \in replacements(rows, i, fn.docType) : out[k] = rows[j]

C25_Witness ==
    /\ fn.st = "deduplicated"
    /\ fn.docType = "invoice"
    /\ Len(fn.rows) = 3 /\ Len(fn.once) = 2
    /\ keyOf(fn.rows[1], "invoice") = keyOf(fn.rows[3], "invoice")
    /\ fn.rows[1] # fn.rows[3]
    /\ fn.rows[1].invoiceNumber # fn.rows[3].invoiceNumber
    /\ keyOf(fn.rows[2], "invoice") = undefined
    /\ fn.once = <<fn.rows[1], fn.rows[2]>>

C27_DeduplicationIsIdempotent ==
    fn.st = "deduplicatedTwice" => fn.twice = fn.once

C27_Witness ==
    /\ fn.st = "deduplicatedTwice"
    /\ fn.docType = "drawdown"
    /\ Len(fn.rows) = 3
    /\ Len(fn.once) = 2
    /\ fn.once[1] = fn.rows[2]
    /\ fn.twice = fn.once

\* the value the latest result that has the field gives it
latestValue(results, field) ==
    LET having == {i \in 1..Len(results) : field \in DOMAIN results[i] /\ results[i][field] # undefined}
    IN IF having = {} THEN undefined
       ELSE results[CHOOSE i \in having : \A j \in having : j <= i][field]

\* the top-level fields that are not the array field of the doc-type; the
\* total of a drawdown is left out, which aggregation computes anew
scalarFields(result, docType) ==
    DOMAIN result \ ((IF arrayField(docType) = undefined THEN {} ELSE {arrayField(docType)[1]})
                     \cup (IF docType = "drawdown" THEN {"totalSum"} ELSE {}))

\* C28: after the aggregation of several results, every top-level field that is
\* not the array field has the value of the latest result that holds the field.
C28_LaterResultOverrides ==
    (fn.st = "aggregated" /\ Len(fn.results) >= 2) =>
        \A field \in scalarFields(fn.result, fn.docType) :
           fn.result[field] = latestValue(fn.results, field)

----------------------------------------------------------------------------
(* Properties of the tiling decision (Spec) *)

\* TilingStage took its tiling branch: only there a tile gets a globalIndex
tilingEnabledFor(tiles) ==
    Len(tiles) > 0 /\ \A t \in 1..Len(tiles) : tiles[t].globalIndex # undefined

\* C29: when the request leaves enableTiling out, TilingStage tiles the pages
\* of a drawdown and builds plain per-page tiles for every other doc-type.
C29_AutoTilingByDocType ==
    (Completed("TilingStage") /\ options.enableTiling = undefined) =>
        (tilingEnabledFor(ctx.tiles) <=> request.docType = "drawdown")

\* C30: a page higher than 1.5 times the slice height yields tiles whose
\* images are the header followed by one slice; a page of exactly 1.5 times
\* the slice height yields one tile whose only image is the page.
C30_TiledPagesCarryHeader ==
    fn.st = "tiled" =>
        LET sliceHeight == fn.tilingConfig.sliceHeight[1]
        IN /\ 2 * fn.height > 3 * sliceHeight =>
                \A t \in 1..Len(fn.tiles) :
                   /\ Len(fn.tiles[t].images) = 2
                   /\ fn.tiles[t].images[1].image = "header"
                   /\ fn.tiles[t].images[2].image = "slice"
           /\ 2 * fn.height = 3 * sliceHeight =>
                /\ Len(fn.tiles) = 1
                /\ fn.tiles[1].images = <<[image |-> "page", top |-> 0, height |-> fn.height]>>

----------------------------------------------------------------------------
(* Properties of the tiles of a document (SpecFn) *)

\* the request sets none of the tiling options
defaultTilingRequest ==
    [enableTiling |-> undefined, sliceHeight |-> undefined, overlap |-> undefined,
     headerHeight |-> undefined]

tilesOfPage(tiles, pageIndex) == {t \in 1..Len(tiles) : tiles[t].pageIndex = pageIndex}

\* C31: a drawdown of two pages of 3000 px with no tiling option set yields six
\* tiles, three per page, each made of the header of its page and one slice,
\* and the extraction issues six model calls.
C31_TwoPagesMakeSixTiles ==
    (/\ fn.st = "tilesBuilt"
     /\ fn.docType = "drawdown"
     /\ fn.userOptions = defaultTilingRequest
     /\ fn.heights = <<3000, 3000>>) =>
        /\ ~fn.threw
        /\ Len(fn.tiles) = 6
        /\ \A pageIndex \in {0, 1} : Cardinality(tilesOfPage(fn.tiles, pageIndex)) = 3
        /\ \A t \in 1..Len(fn.tiles) :
              /\ Len(fn.tiles[t].images) = 2
              /\ fn.tiles[t].images[1].image = "header"
        /\ fn.calls = 6

\* (pageIndex, sliceIndex) of a comes before that of b
tileBefore(a, b) ==
    \/ a.pageIndex < b.pageIndex
    \/ a.pageIndex = b.pageIndex /\ a.sliceIndex < b.sliceIndex

\* C32: in the tiles TilingStage stores, a tile's (pageIndex, sliceIndex) is
\* strictly below that of every later tile: the pairs are unique and ascending.
C32_TilesUniqueAndAscending ==
    (fn.st = "tilesBuilt" /\ ~fn.threw) =>
        \A i, j \in 1..Len(fn.tiles) : i < j => tileBefore(fn.tiles[i], fn.tiles[j])

C32_Witness ==
    /\ fn.st = "tilesBuilt" /\ ~fn.threw
    /\ Len(fn.heights) = 2
    /\ Cardinality(tilesOfPage(fn.tiles, 0)) >= 2
    /\ Cardinality(tilesOfPage(fn.tiles, 1)) >= 2
    /\ \E t \in 1..Len(fn.tiles) : fn.tiles[t].pageIndex = 1 /\ fn.tiles[t].sliceIndex = 1

----------------------------------------------------------------------------
(* Properties of the strict schema (SpecFn) *)

\* C33: every schema text embedded into a prompt is the schema the request
\* was built with, also after the strict schema has been derived from it.
C33_PromptEmbedsOriginalSchema ==
    (fn.st \in {"schema", "strictDerived", "prompted"}) =>
        \A k \in 1..Len(fn.prompts) : fn.prompts[k] = fn.original

----------------------------------------------------------------------------
(* Properties of the response of a run without extractions (Spec) *)

\* C34: a run answered with a success has at least one extraction result of
\* a model call behind it, and its body is not the empty result object: not
\* when no extraction stage ran, and not when every tile or page call failed.
C34_SuccessNeedsAnExtraction ==
    (pc = "responded" /\ response.status = 200) =>
        /\ Len(ctx.extractions) >= 1
        /\ response.body # "empty"

----------------------------------------------------------------------------
(* Properties of the validator repair (SpecData) *)

\* C35: every row the validator re-verifies is sent with the images of the
\* tile that produced it, the tile of the row's page and slice.
C35_ReVerifiedWithOwnTile ==
    \A call \in dctx.reVerified :
       \A i \in 1..Len(call.items) :
          /\ call.items[i].pageIndex = <<call.tile.pageIndex>>
          /\ call.items[i].sliceIndex = <<call.tile.sliceIndex>>

\* C36: applying the repairs leaves a row whose IBAN was valid as it was,
\* also when it shares its normalised invoiceNumber with a repaired row, and
\* changes nothing but the IBAN of a row that was invalid.
C36_RepairsTouchOnlyInvalidRows ==
    fn.st = "validated" =>
        \A i \in 1..Len(fn.items) :
           IF validateIBAN(fn.items[i].iban)
           THEN fn.repaired[i] = fn.items[i]
           ELSE [fn.repaired[i] EXCEPT !.iban = fn.items[i].iban] = fn.items[i]

----------------------------------------------------------------------------
(* Properties of the rows the ocr-verified stage returns (SpecVerified) *)

\* C37: every row of the initial extraction has a row in the output of the
\* ocr-verified stage that stands for it: a row of its normalised
\* invoiceNumber that is the row itself, the row with a repaired IBAN, or
\* the invalid row with its _validationIssue; the rows of one invoiceNumber
\* may be represented by one valid row.
C37_NoRowLost ==
    ov.st = "done" =>
        \A k \in 1..Len(ov.items) :
           \E i \in 1..Len(ov.finalItems) :
              LET item == ov.items[k]
                  row == ov.finalItems[i]
              IN /\ normalizeInvoiceNumber(row.invoiceNumber) = normalizeInvoiceNumber(item.invoiceNumber)
                 /\ \/ validateIBAN(row.iban)
                    \/ "_validationIssue" \in row.marks

----------------------------------------------------------------------------
(* Properties of createBatches (SpecFn) *)

\* the batches in which a tile is placed
batchesOf(batches, t) == {b \in 1..Len(batches) : t \in Range(batches[b])}

\* C38: for every maxConcurrency the request can supply the loop of
\* createBatches reaches the end of the tile list, each iteration bringing
\* its index nearer to the end, and in the batches it returns every tile is
\* placed in exactly one batch.
C38_BatchCreationTerminates ==
    [][/\ (fn.st = "batching" /\ fn'.st = "batching") => fn'.i > fn.i
       /\ (fn.st = "batching" /\ fn'.st = "batched") =>
             \A t \in Range(fn'.items) : Cardinality(batchesOf(fn'.batches, t)) = 1]_vars

----------------------------------------------------------------------------
(* Properties of the tiling options of an extraction (Spec) *)

\* what the configuration holds for a doc-type: the defaults under its overrides
configuredTiling(docType) == Spread(tilingDefaults, tilingByDocType(docType))

omittableTilingOptions == {"parallelMode", "maxConcurrency", "sliceHeight", "overlap", "headerHeight"}

\* C39: while the tiles of a multi-tile request are extracted, every tiling
\* option the request omitted has the value the configuration holds for the
\* doc-type, none is undefined, and a drawdown request that omitted
\* parallelTiling is extracted in parallel mode.
C39_OmittedOptionTakesConfigured ==
    (pc = "extracting" /\ ex.mode \in {"sequential", "parallel"}) =>
        /\ \A k \in omittableTilingOptions :
              options[k] = undefined =>
                 /\ getTilingConfig(request.docType, options)[k] # undefined
                 /\ getTilingConfig(request.docType, options)[k] = configuredTiling(request.docType)[k]
        /\ (request.docType = "drawdown" /\ options.parallelMode = undefined) => ex.mode = "parallel"

----------------------------------------------------------------------------
(* Properties of the rows deduplicateRows removes (SpecFn) *)

\* two rows agree on every configured key field, after trim and lower-casing
agreeOnKeyFields(a, b, docType) ==
    \A f \in 1..Len(keyFields(docType)) :
       keyValue(a, keyFields(docType)[f]) = keyValue(b, keyFields(docType)[f])

\* C40: a row that no earlier row agrees with on every configured key field
\* is not removed: the deduplicated sequence holds a row that agrees with it
\* on every key field.
C40_RemovedOnlyIfAllKeyFieldsAgree ==
    Deduplicated =>
        \A i \in 1..Len(fn.rows) :
           (\A j \in 1..(i - 1) : ~agreeOnKeyFields(fn.rows[j], fn.rows[i], fn.docType)) =>
               \E k \in 1..Len(fn.once) : agreeOnKeyFields(fn.once[k], fn.rows[i], fn.docType)

====
